---- MODULE Spec2Model ----
(***************************************************************************)
(* C-napse: the turn loop of the TUI (src/tui/app.rs), the tool executor   *)
(* (src/tui/tools_executor.rs), the context manager (src/memory/context.rs)*)
(* and the SQLite memory store (src/memory/store.rs).                      *)
(*                                                                         *)
(* Strings are sequences of tokens (a token is a TLA+ string): format! and *)
(* join are concatenations of token sequences, so that what a message      *)
(* contains can be compared and searched.                                  *)
(***************************************************************************)
EXTENDS Integers, Sequences, FiniteSets, TLC

VARIABLES
    \* MemoryStore (the SQLite tables) and the uuid source
    store_sessions,     \* rows of table sessions, in insertion order
    store_messages,     \* rows of table messages, in insertion order
    next_uuid,          \* the next value Uuid::new_v4() returns
    clock,              \* the UTC time: the day and the second of the day
    store_last,         \* the last MemoryStore call and what it returned
    tie_order,          \* the order SQLite returns rows of equal sort key in
    store_notes,        \* rows of table notes, in insertion order
    store_ret,          \* the rows the last call of the store returned
    \* ToolExecutor
    exec_request,       \* the ToolRequest last passed to execute
    exec_result,        \* what that call returned (Result<ToolResult>)
    effects,            \* the OS-level operations the tools performed
    \* ContextManager
    session_id,         \* ContextManager.session_id
    hot_messages,       \* ContextManager.hot_messages
    hot_turns,          \* settings.memory.hot_turns
    warm_chunks,        \* settings.memory.warm_chunks
    ctx_context,        \* what the last get_context_with_retrieval returned
    ctx_ret,            \* what the last ContextManager call returned
    ctx_added,          \* messages whose add_message returned Ok since the last reset
    ctx_failed,         \* a ContextManager call returned Err since the last reset
    ctx_calls,          \* ContextManager calls made
    \* TuiApp
    input,              \* TuiApp.input
    messages,           \* TuiApp.messages
    conversation_id,    \* TuiApp.conversation_id
    status,             \* TuiApp.status
    processing,         \* TuiApp.processing
    history,            \* TuiApp.history
    running,            \* TuiApp.running
    screen_watching,    \* TuiApp.screen_watching
    \* the turn in progress (locals of submit_message / process_with_agent)
    pc,                 \* the await point the turn is at
    turn,               \* the locals of the turn, and what it has done so far
    \* cnapse run (src/cli/commands/run.rs)
    query,              \* the request text
    provider,           \* the inference provider named
    forced_agent,       \* the agent forced with --agent or a slash command
    route_ret,          \* what process_query selected and returned
    \* parse_tool_calls
    parse_input,        \* the inline directive of the response: its name and items
    parse_ret,          \* the Vec<ToolRequest> parse_tool_calls returned for it
    model_reply,        \* a whole reply of the model, and whether it was parsed
    \* Settings (src/config/settings.rs)
    settings,           \* the Settings value, by the path of each setting
    settings_last,      \* the last Settings call and what it returned
    \* RouterAgent (src/agents/router.rs)
    router_ret,         \* the agent name RouterAgent::execute answered with
    \* ScreenWatcher (src/tui/screen_watcher.rs)
    watcher,            \* the fields of the ScreenWatcher
    capture_task,       \* the background capture task: none, running or ended
    capture_channel,    \* the results sent on the channel of capture_receiver
    watcher_ret         \* what the last check_for_changes returned

storeVars == <<store_sessions, store_messages, next_uuid>>
execVars == <<exec_request, exec_result, effects>>
ctxVars == <<session_id, hot_messages, hot_turns, ctx_ret, ctx_added, ctx_failed,
            ctx_calls, warm_chunks, ctx_context>>
tuiVars == <<input, messages, conversation_id, status, processing, history,
             running, screen_watching, pc, turn>>
timeVars == <<clock, store_last, tie_order>>
routeVars == <<query, provider, forced_agent, route_ret>>
queryVars == <<store_notes, store_ret>>
parseVars == <<parse_input, parse_ret, model_reply>>
settingsVars == <<settings, settings_last>>
routerVars == <<router_ret>>
watcherVars == <<watcher, capture_task, capture_channel, watcher_ret>>
vars == <<watcherVars, routerVars, settingsVars, storeVars, execVars, ctxVars, tuiVars, timeVars, routeVars, queryVars,
          parseVars>>

\* What the steps of each component leave alone
outsideTui == <<watcherVars, routerVars, settingsVars, ctxVars, timeVars, routeVars, queryVars, parseVars>>
outsideCtx == <<watcherVars, routerVars, settingsVars, execVars, tuiVars, timeVars, routeVars, queryVars, parseVars>>
outsideExec == <<watcherVars, routerVars, settingsVars, storeVars, ctxVars, tuiVars, timeVars, routeVars, queryVars,
                 parseVars>>
outsideStore == <<watcherVars, routerVars, settingsVars, execVars, ctxVars, tuiVars, routeVars, store_notes, parseVars>>
outsideRoute == <<watcherVars, routerVars, settingsVars, storeVars, execVars, ctxVars, tuiVars, timeVars, queryVars,
                  parseVars>>
outsideNotes == <<watcherVars, routerVars, settingsVars, store_sessions, store_messages, execVars, ctxVars, tuiVars,
                  routeVars, tie_order, parseVars>>
outsideParse == <<watcherVars, routerVars, settingsVars, storeVars, execVars, ctxVars, tuiVars, timeVars, routeVars,
                  queryVars>>

----------------------------------------------------------------------------
(* Strings *)

\* Option<String>
None == [some |-> FALSE, v |-> <<>>]
Some(s) == [some |-> TRUE, v |-> s]

\* slice.join(sep) of a Vec<String>
RECURSIVE Join(_, _)
Join(strs, sep) ==
    IF Len(strs) = 0 THEN <<>>
    ELSE IF Len(strs) = 1 THEN strs[1]
    ELSE strs[1] \o sep \o Join(Tail(strs), sep)

\* str::contains
Contains(s, t) ==
    \E p \in 0..(Len(s) - Len(t)) : SubSeq(s, p + 1, p + Len(t)) = t

----------------------------------------------------------------------------
(* MemoryStore: the tables sessions and messages of src/memory/store.rs *)

\* Uuid::new_v4(): a value that names nothing yet. next_uuid advances when the
\* value is kept (in a row, a message, a field), so an id is never used twice.
NewUuid == next_uuid

\* datetime('now'): the UTC time to the second, as the column default stores it
DatetimeNow == clock

\* The INSERT as it would be with role and content bound in each other's place
InsertMessage_SwappedParams(rows, id, sid, role, content, agent) ==
    Append(rows, [id |-> id, session_id |-> sid, role |-> content,
                  content |-> role, agent |-> agent, created_at |-> DatetimeNow])

\* INSERT INTO messages (id, session_id, role, content, agent, tokens);
\* created_at takes its default, datetime('now')
InsertMessage(rows, id, sid, role, content, agent) ==
    Append(rows, [id |-> id, session_id |-> sid, role |-> role,
                  content |-> content, agent |-> agent, created_at |-> DatetimeNow])

\* UPDATE sessions SET updated_at = datetime('now') WHERE id = ?1
\* (updated counts the times the row was touched; no row, no change)
TouchSession(rows, sid) ==
    [i \in DOMAIN rows |->
        IF rows[i].id = sid THEN [rows[i] EXCEPT !.updated = @ + 1] ELSE rows[i]]

\* How a MemoryStore::add_message call can end: both statements run, the
\* INSERT fails, or the INSERT runs and the UPDATE fails. Each statement is
\* its own (autocommit) transaction.
AddOutcomes == {"ok", "insert_fails", "update_fails"}

\* MemoryStore::add_message: the tables after the call and what it returns
MemoryStore_add_message(o, sid, role, content, agent) ==
    LET id == NewUuid
        inserted == InsertMessage(store_messages, id, sid, role, content, agent)
    IN  CASE o = "insert_fails" ->
                [ok |-> FALSE, messages |-> store_messages,
                 sessions |-> store_sessions, uuid |-> id]
          [] o = "update_fails" ->
                [ok |-> FALSE, messages |-> inserted,
                 sessions |-> store_sessions, uuid |-> id + 1]
          [] OTHER ->
                [ok |-> TRUE, messages |-> inserted,
                 sessions |-> TouchSession(store_sessions, sid), uuid |-> id + 1]

\* create_session as it would be if the INSERT replaced the rows of the table
MemoryStore_create_session_ReplacesRows(sessions, ok) ==
    LET id == NewUuid
    IN  IF ok
        THEN [ok |-> TRUE, id |-> id, uuid |-> id + 1,
              sessions |-> <<[id |-> id, created_at |-> DatetimeNow, updated |-> 0]>>]
        ELSE [ok |-> FALSE, id |-> id, uuid |-> id, sessions |-> sessions]

\* MemoryStore::create_session on the table `sessions`:
\* INSERT INTO sessions (id) VALUES (uuid); ok is whether the INSERT succeeds.
\* created_at takes its default, datetime('now').
MemoryStore_create_session(sessions, ok) ==
    LET id == NewUuid
    IN  IF ok
        THEN [ok |-> TRUE, id |-> id, uuid |-> id + 1,
              sessions |-> Append(sessions, [id |-> id, created_at |-> DatetimeNow,
                                             updated |-> 0])]
        ELSE [ok |-> FALSE, id |-> id, uuid |-> id, sessions |-> sessions]

\* Utc::now().format("%Y-%m-%d") and date(created_at): the day of a time
Date(t) == t.day

\* created_at values compare as their text does: by day, then by second
Later(t, u) == t.day > u.day \/ (t.day = u.day /\ t.sec > u.sec)

\* How SQLite can order rows whose ORDER BY key is equal: SQL leaves it open;
\* a build scans the table in insertion (rowid) order and keeps the order of
\* equal keys or reverses it
TieOrders == {"first_inserted", "last_inserted"}

\* SELECT id FROM sessions WHERE date(created_at) = today
\*   ORDER BY created_at DESC LIMIT 1
\* the index of the row returned, 0 when no row matches
SelectSessionOfDay(sessions, today) ==
    LET of_day == {k \in DOMAIN sessions : Date(sessions[k].created_at) = today}
        newest == {k \in of_day :
                      \A j \in of_day :
                          ~Later(sessions[j].created_at, sessions[k].created_at)}
    IN  IF of_day = {} THEN 0
        ELSE IF tie_order = "first_inserted"
        THEN CHOOSE k \in newest : \A j \in newest : k <= j
        ELSE CHOOSE k \in newest : \A j \in newest : k >= j

\* How the lookup of get_or_create_session can end: the query runs, or it
\* fails with a storage error
LookupOutcomes == {"ok", "query_fails"}

\* MemoryStore::get_or_create_session: .ok() turns both "no row" and a failed
\* query into None, and None creates a session
MemoryStore_get_or_create_session(lookup, ok) ==
    LET today == Date(clock)
        k == SelectSessionOfDay(store_sessions, today)
        result == IF lookup = "ok" /\ k # 0 THEN Some(store_sessions[k].id) ELSE None
    IN  IF result.some
        THEN [ok |-> TRUE, id |-> result.v, uuid |-> next_uuid,
              sessions |-> store_sessions]
        ELSE MemoryStore_create_session(store_sessions, ok)

\* How a MemoryStore::clear_session call can end: both DELETEs run, the
\* first fails, or the first runs and the second fails.
ClearOutcomes == {"ok", "delete_messages_fails", "delete_session_fails"}

\* clear_session as it would be without the DELETE on sessions
MemoryStore_clear_session_KeepsSessionRow(o, sid) ==
    LET kept == SelectSeq(store_messages, LAMBDA m : m.session_id # sid)
    IN  CASE o = "delete_messages_fails" ->
                [ok |-> FALSE, messages |-> store_messages, sessions |-> store_sessions]
          [] o = "delete_session_fails" ->
                [ok |-> FALSE, messages |-> kept, sessions |-> store_sessions]
          [] OTHER ->
                [ok |-> TRUE, messages |-> kept, sessions |-> store_sessions]

\* MemoryStore::clear_session
MemoryStore_clear_session(o, sid) ==
    LET kept == SelectSeq(store_messages, LAMBDA m : m.session_id # sid)
    IN  CASE o = "delete_messages_fails" ->
                [ok |-> FALSE, messages |-> store_messages, sessions |-> store_sessions]
          [] o = "delete_session_fails" ->
                [ok |-> FALSE, messages |-> kept, sessions |-> store_sessions]
          [] OTHER ->
                [ok |-> TRUE, messages |-> kept,
                 sessions |-> SelectSeq(store_sessions, LAMBDA r : r.id # sid)]

----------------------------------------------------------------------------
(* ToolExecutor: src/tui/tools_executor.rs *)

\* serde_json::Value of an argument: a string or a number, v its text.
\* An argument map (HashMap<String, Value>) is a function from keys to values.
StrValue(s) == [kind |-> "str", v |-> s]
IntValue(s) == [kind |-> "int", v |-> s]

\* tools::ToolResult::ok / ToolResult::err
ToolResult_ok(output) == [success |-> TRUE, output |-> output, error |-> None]
ToolResult_err(error) == [success |-> FALSE, output |-> <<>>, error |-> Some(error)]

\* What the OS-level tool behind `name` can return: ok(output), err(error), and
\* for a shell command that exits non-zero, its stdout with an error text.
OsOutcomes(name) ==
    {ToolResult_ok(<<"out">>), ToolResult_err(<<"os error">>)}
    \cup (IF name \in {"shell", "run_command"}
          THEN {[success |-> FALSE, output |-> <<"stdout">>,
                 error |-> Some(<<"Exit code: ", "1", "\n", "stderr">>)]}
          ELSE {})

\* Result<ToolResult> of execute, with the OS operations it performed
Ok(r, eff) ==
    [tag |-> "Ok", success |-> r.success, output |-> r.output, error |-> r.error,
     msg |-> <<>>, eff |-> eff]
Err(msg) ==
    [tag |-> "Err", success |-> FALSE, output |-> <<>>, error |-> None,
     msg |-> msg, eff |-> <<>>]

\* CnapseError::tool(msg), as Display prints it
CnapseError_tool(msg) == <<"Tool execution error: ">> \o msg

\* ToolExecutor::get_string_arg: Ok(the string) or Err(Missing argument: key)
get_string_arg(args, key) ==
    IF key \in DOMAIN args /\ args[key].kind = "str"
    THEN [ok |-> TRUE, v |-> args[key].v, msg |-> <<>>]
    ELSE [ok |-> FALSE, v |-> <<>>,
          msg |-> CnapseError_tool(<<"Missing argument: ">> \o key)]

\* ToolExecutor::get_int_arg
get_int_arg(args, key) ==
    IF key \in DOMAIN args /\ args[key].kind = "int"
    THEN [ok |-> TRUE, v |-> args[key].v, msg |-> <<>>]
    ELSE [ok |-> FALSE, v |-> <<>>,
          msg |-> CnapseError_tool(<<"Missing argument: ">> \o key)]

\* An OS-level operation a tool performed
Effect(op, a) == <<[op |-> op, args |-> a]>>

\* The names execute matches
RegisteredTools ==
    {"read_file", "write_file", "list_dir", "shell", "run_command",
     "copy_to_clipboard", "read_clipboard", "list_processes", "kill_process",
     "screenshot"}

\* The unknown tool as it would be if it were raised like a missing argument
UnknownTool_Raises(request) ==
    Err(CnapseError_tool(<<"Unknown tool: ", request.name>>))

\* execute, arm `_`: the unknown tool
UnknownTool(request) ==
    Ok([success |-> FALSE, output |-> <<>>,
        error |-> Some(<<"Unknown tool: ", request.name>>)], <<>>)

\* execute, the arms that take one required string argument `key`
OneStringArg(request, key, op, os) ==
    LET a == get_string_arg(request.args, key)
    IN  IF a.ok THEN Ok(os, Effect(op, <<a.v>>)) ELSE Err(a.msg)

\* ToolExecutor::execute; os is what the OS-level tool returns if it is reached
execute(request, os) ==
    LET n == request.name
        args == request.args
    IN  CASE n = "read_file" -> OneStringArg(request, <<"path">>, "read_file", os)
          [] n = "write_file" ->
                LET path == get_string_arg(args, <<"path">>)
                    content == get_string_arg(args, <<"content">>)
                IN  IF ~path.ok THEN Err(path.msg)
                    ELSE IF ~content.ok THEN Err(content.msg)
                    ELSE Ok(os, Effect("write_file", <<path.v, content.v>>))
          [] n = "list_dir" ->
                LET path == get_string_arg(args, <<"path">>)
                IN  Ok(os, Effect("list_dir", <<IF path.ok THEN path.v ELSE <<".">> >>))
          [] n \in {"shell", "run_command"} ->
                OneStringArg(request, <<"command">>, "run_command", os)
          [] n = "copy_to_clipboard" ->
                OneStringArg(request, <<"text">>, "set_clipboard", os)
          [] n = "read_clipboard" -> Ok(os, Effect("get_clipboard", <<>>))
          [] n = "list_processes" -> Ok(os, Effect("list_processes", <<>>))
          [] n = "kill_process" ->
                LET pid == get_int_arg(args, <<"pid">>)
                IN  IF pid.ok THEN Ok(os, Effect("kill_process", <<pid.v>>))
                    ELSE Err(pid.msg)
          [] n = "screenshot" ->
                Ok(os, Effect("take_screenshot",
                              IF <<"path">> \in DOMAIN args /\ args[<<"path">>].kind = "str"
                              THEN <<args[<<"path">>].v>> ELSE <<>>))
          [] OTHER -> UnknownTool(request)

----------------------------------------------------------------------------
(* ContextManager: src/memory/context.rs *)

\* AgentMessage (metadata is None everywhere in the code modelled)
AgentMessage(role, content) == [role |-> role, content |-> content]

\* add_message, the match on message.role: the role column of the row
RoleName(role) ==
    CASE role = "System" -> "system"
      [] role = "User" -> "user"
      [] role = "Assistant" -> "assistant"
      [] OTHER -> "tool"

\* The trim as it would be if it dropped the newest entries
TrimHot_KeepOldest(hot, max_hot) ==
    IF Len(hot) > max_hot THEN SubSeq(hot, 1, max_hot) ELSE hot

\* add_message, the trim: hot_messages.drain(0..len - max_hot) when len > max_hot
TrimHot(hot, max_hot) ==
    IF Len(hot) > max_hot THEN SubSeq(hot, Len(hot) - max_hot + 1, Len(hot)) ELSE hot

\* ContextManager::add_message(message, agent); o is how the store's write ends
ContextManager_add_message(message, agent, o) ==
    LET pushed == Append(hot_messages, message)
        r == MemoryStore_add_message(o, session_id, RoleName(message.role),
                                     message.content, agent)
        max_hot == hot_turns * 2
    IN  /\ store_messages' = r.messages
        /\ store_sessions' = r.sessions
        /\ next_uuid' = r.uuid
        /\ IF r.ok
           THEN /\ hot_messages' = TrimHot(pushed, max_hot)
                /\ ctx_ret' = "Ok"
                /\ ctx_added' = Append(ctx_added, message)
                /\ ctx_failed' = ctx_failed
           ELSE /\ hot_messages' = pushed
                /\ ctx_ret' = "Err"
                /\ ctx_added' = ctx_added
                /\ ctx_failed' = TRUE
        /\ UNCHANGED <<session_id, hot_turns>>

\* ContextManager::new_session; ok is whether the store's INSERT succeeds
ContextManager_new_session(ok) ==
    LET r == MemoryStore_create_session(store_sessions, ok)
    IN  /\ store_sessions' = r.sessions
        /\ next_uuid' = r.uuid
        /\ IF r.ok
           THEN /\ session_id' = r.id
                /\ hot_messages' = <<>>
                /\ ctx_ret' = "Ok"
                /\ ctx_added' = <<>>
                /\ ctx_failed' = FALSE
           ELSE /\ ctx_ret' = "Err"
                /\ ctx_failed' = TRUE
                /\ UNCHANGED <<session_id, hot_messages, ctx_added>>
        /\ UNCHANGED <<store_messages, hot_turns>>

\* ContextManager::clear; o is how clear_session ends, ok whether the INSERT of
\* the new session succeeds
ContextManager_clear(o, ok) ==
    LET c == MemoryStore_clear_session(o, session_id)
        r == MemoryStore_create_session(c.sessions, ok)
    IN  /\ store_messages' = c.messages
        /\ IF ~c.ok
           THEN /\ store_sessions' = c.sessions
                /\ ctx_ret' = "Err"
                /\ ctx_failed' = TRUE
                /\ UNCHANGED <<session_id, hot_messages, ctx_added, next_uuid>>
           ELSE /\ hot_messages' = <<>>
                /\ store_sessions' = r.sessions
                /\ next_uuid' = r.uuid
                /\ IF r.ok
                   THEN /\ session_id' = r.id
                        /\ ctx_ret' = "Ok"
                        /\ ctx_added' = <<>>
                        /\ ctx_failed' = FALSE
                   ELSE /\ ctx_ret' = "Err"
                        /\ ctx_failed' = TRUE
                        /\ UNCHANGED <<session_id, ctx_added>>
        /\ UNCHANGED hot_turns

----------------------------------------------------------------------------
(* parse_tool_calls: src/tui/tools_executor.rs *)

\* ToolRequest
ToolRequest(name, args) == [name |-> name, args |-> args]

\* HashMap::new() and HashMap::insert (a later insert of a key replaces the value)
EmptyMap == [k \in {} |-> StrValue(<<>>)]
MapInsert(m, k, v) == [x \in (DOMAIN m) \cup {k} |-> IF x = k THEN v ELSE m[x]]

\* The tokens the regex class \w+ matches, among the tokens of the model
Words ==
    RegisteredTools \cup
    {"http_get", "bogus", "tool", "args", "path", "content", "command", "text",
     "pid", "url", "ls", "x", "u", "1", "ok", "done", "hi"}

\* The position of the first `tok` of s at or after p, 0 when there is none
RECURSIVE IndexFrom(_, _, _)
IndexFrom(s, tok, p) ==
    IF p > Len(s) THEN 0
    ELSE IF s[p] = tok THEN p
    ELSE IndexFrom(s, tok, p + 1)

\* str::split(sep): the pieces of s between the separators (always at least one)
RECURSIVE Split(_, _)
Split(s, sep) ==
    LET q == IndexFrom(s, sep, 1)
    IN  IF q = 0 THEN <<s>>
        ELSE <<SubSeq(s, 1, q - 1)>> \o Split(SubSeq(s, q + 1, Len(s)), sep)

\* parse_tool_calls, the loop over args_str.split(',').enumerate(): items from
\* index i on (0-based), inserted into args
RECURSIVE InlineArgs(_, _, _)
InlineArgs(items, i, args) ==
    IF i >= Len(items) THEN args
    ELSE LET arg == items[i + 1]
             eq == IndexFrom(arg, "=", 1)
         IN  IF arg = <<>> THEN InlineArgs(items, i + 1, args)
             ELSE IF eq # 0
             THEN InlineArgs(items, i + 1,
                     MapInsert(args, SubSeq(arg, 1, eq - 1),
                               StrValue(SubSeq(arg, eq + 1, Len(arg)))))
             ELSE InlineArgs(items, i + 1,
                     MapInsert(args, <<"arg", ToString(i)>>, StrValue(arg)))

\* parse_tool_calls, the inline form: the matches of
\* \[TOOL:\s*(\w+)\(([^)]*)\)\] in `response` from position p on, left to right
RECURSIVE InlineCalls(_, _)
InlineCalls(response, p) ==
    IF p > Len(response) THEN <<>>
    ELSE LET close == IndexFrom(response, ")", p + 3)
             matches ==
                /\ response[p] = "[TOOL:"
                /\ p + 2 <= Len(response)
                /\ response[p + 1] \in Words
                /\ response[p + 2] = "("
                /\ close # 0
                /\ close + 1 <= Len(response)
                /\ response[close + 1] = "]"
         IN  IF matches
             THEN <<ToolRequest(response[p + 1],
                        InlineArgs(Split(SubSeq(response, p + 3, close - 1), ","),
                                   0, EmptyMap))>>
                  \o InlineCalls(response, close + 2)
             ELSE InlineCalls(response, p + 1)

\* A JSON object { "k" : v, ... } given as the tokens between its braces, with
\* each value a quoted string or one bare token (a number): [ok, map]
RECURSIVE JsonMembers(_, _)
JsonMembers(s, m) ==
    IF s = <<>> THEN [ok |-> TRUE, map |-> m]
    ELSE IF ~(Len(s) >= 5 /\ s[1] = "\"" /\ s[3] = "\"" /\ s[4] = ":")
    THEN [ok |-> FALSE, map |-> m]
    ELSE LET quoted == s[5] = "\""
             last == IF quoted THEN IndexFrom(s, "\"", 6) ELSE 5
             v == IF quoted THEN StrValue(SubSeq(s, 6, last - 1))
                  ELSE IntValue(<<s[5]>>)
             m2 == MapInsert(m, <<s[2]>>, v)
         IN  IF last = 0 \/ s[5] \in {"{", "}", ",", ":"}
             THEN [ok |-> FALSE, map |-> m]
             ELSE IF last = Len(s) THEN [ok |-> TRUE, map |-> m2]
             ELSE IF s[last + 1] = "," /\ last + 1 < Len(s)
             THEN JsonMembers(SubSeq(s, last + 2, Len(s)), m2)
             ELSE [ok |-> FALSE, map |-> m]

\* parse_tool_calls, the JSON form: serde_json::from_str(response) and the
\* fields tool and args of the object, for the replies of the shapes
\* {"tool": "<name>"} and {"tool": "<name>", "args": {...}}; any other text is
\* taken not to hold a tool call in this form
JsonCalls(response) ==
    LET n == Len(response)
        head ==
            /\ n >= 9
            /\ SubSeq(response, 1, 6) = <<"{", "\"", "tool", "\"", ":", "\"">>
            /\ response[8] = "\""
            /\ response[n] = "}"
        with_args ==
            /\ n >= 16
            /\ SubSeq(response, 9, 14) = <<",", "\"", "args", "\"", ":", "{">>
            /\ response[n - 1] = "}"
        members == JsonMembers(SubSeq(response, 15, n - 2), EmptyMap)
    IN  IF head /\ n = 9 THEN <<ToolRequest(response[7], EmptyMap)>>
        ELSE IF head /\ with_args /\ members.ok
        THEN <<ToolRequest(response[7], members.map)>>
        ELSE <<>>

\* parse_tool_calls
parse_tool_calls(response) == JsonCalls(response) \o InlineCalls(response, 1)

----------------------------------------------------------------------------
(* TuiApp: src/tui/app.rs *)

\* ChatMessage (the timestamp is not modelled) and ToolCall
ChatMessage(id, role, content, is_streaming) ==
    [id |-> id, role |-> role, content |-> content, tool_calls |-> <<>>,
     is_streaming |-> is_streaming]
ToolCall(name, st, result) == [name |-> name, status |-> st, result |-> result]

\* TuiApp::add_system_message, on the list msgs with the fresh id `id`
add_system_message(msgs, id, content) ==
    Append(msgs, ChatMessage(id, "System", content, FALSE))

\* TuiApp::new, the welcome message
Welcome == <<"Welcome to C-napse! Type your message and press Enter to send.">>

\* Iterator::take(n)
Take(s, n) == SubSeq(s, 1, IF Len(s) < n THEN Len(s) ELSE n)

\* process_with_agent: how many messages .take(..) keeps for the context
ContextTake == 10

\* process_with_agent, "Build context from recent messages": the user and
\* assistant entries of self.messages, the first ContextTake of them
BuildContext(msgs) ==
    LET kept == SelectSeq(msgs, LAMBDA m : m.role \in {"User", "Assistant"})
        taken == Take(kept, ContextTake)
    IN  [k \in DOMAIN taken |-> AgentMessage(taken[k].role, taken[k].content)]

\* process_with_agent, the system prompt built around tools_description()
SystemPrompt ==
    <<"You are C-napse, a helpful AI assistant for PC automation.", "\n\n",
      "You have access to the following tools:", "\n\n",
      "When the user asks you to do something, use the appropriate tool.">>

\* process_with_agent, "Add screen context if watching"
ScreenContext(user_input, desc) ==
    IF screen_watching /\ desc.some
    THEN <<"[Current screen: ">> \o desc.v \o <<"]", "\n\n">> \o user_input
    ELSE user_input

\* What ScreenWatcher::get_current_description can return
ScreenDescriptions == {None, Some(<<"a desktop">>)}

\* The words the user types (one key press enters one word), and the inputs
\* the user builds from them
InputWords ==
    {"hi", "/help", "/clear", "/watch", "/model", "/status", "/new", "/exit",
     "/bogus"}
Inputs == {<<w>> : w \in InputWords} \cup {<<"/model", "hi">>}

\* user_input.starts_with('/')
StartsWithSlash(text) ==
    /\ Len(text) > 0
    /\ text[1] \in {"/help", "/clear", "/watch", "/model", "/status", "/new",
                    "/exit", "/bogus"}

\* The replies the inference backend gives to a first request: plain text; three
\* directives of which the second lacks its content argument; a directive for
\* http_get, which tools_description() offers and execute does not know; a
\* read_file directive without its path; a whole-reply JSON directive
Replies ==
    { <<"ok">>,
      <<"[TOOL:", "read_file", "(", "path", "=", "/a", ")", "]",
        "[TOOL:", "write_file", "(", "path", "=", "/a", ")", "]",
        "[TOOL:", "list_dir", "(", ")", "]">>,
      <<"[TOOL:", "http_get", "(", "url", "=", "u", ")", "]">>,
      <<"[TOOL:", "read_file", "(", ")", "]">>,
      <<"{", "\"", "tool", "\"", ":", "\"", "shell", "\"", ",",
        "\"", "args", "\"", ":", "{", "\"", "command", "\"", ":", "\"", "ls", "\"",
        "}", "}">> }

\* The replies the backend gives to a follow-up request
FollowUpReplies == { <<"done">> }

\* The locals of a turn, and the record of what the turn did:
\*   requests   the message lists of the inference requests sent, in order
\*   executed   the ToolRequests passed to ToolExecutor::execute, in order
\*   results    what each of those calls returned
\*   follow_up  how the follow-up inference call ended: "Ok", "Err", or "none"
\*   outcome    what process_with_agent returned: "Ok", "Err", or "none" so far
\*   failed_at  the step that returned the error
\*   cancel_at  the await point at which the user pressed Ctrl+C ("none": not
\*              pressed); the key event waits in the terminal's queue
\*   pre_messages, pre_store   self.messages and the store before the turn
NoTurn ==
    [user_input |-> <<>>, assistant_msg_id |-> 0, context_messages |-> <<>>,
     context |-> <<>>, all_messages |-> <<>>, response |-> <<>>,
     tool_calls |-> <<>>, i |-> 0, tool_results |-> <<>>, final_response |-> <<>>,
     follow_up |-> "none",
     requests |-> <<>>, executed |-> <<>>, results |-> <<>>, outcome |-> "none",
     failed_at |-> "none", cancel_at |-> "none", pre_messages |-> <<>>,
     pre_store |-> <<>>]

\* submit_message as it would be if it returned the error of
\* process_with_agent with `?`: nothing after the call runs
FinishTurn_PropagatesError(msgs, ok, text) ==
    IF ok
    THEN /\ messages' =
              [k \in DOMAIN msgs |->
                  IF msgs[k].id = turn.assistant_msg_id
                  THEN [msgs[k] EXCEPT !.content = text, !.is_streaming = FALSE]
                  ELSE msgs[k]]
         /\ processing' = FALSE
         /\ status' = <<"Ready">>
         /\ pc' = "idle"
    ELSE /\ messages' = msgs
         /\ UNCHANGED <<processing, status>>
         /\ pc' = "idle"

\* submit_message, the match on what process_with_agent returned: the
\* placeholder gets the response or the error, and the turn is over
FinishTurn(msgs, ok, text) ==
    LET content == IF ok THEN text ELSE <<"Error: ">> \o text
    IN  /\ messages' =
              [k \in DOMAIN msgs |->
                  IF msgs[k].id = turn.assistant_msg_id
                  THEN [msgs[k] EXCEPT !.content = content, !.is_streaming = FALSE]
                  ELSE msgs[k]]
        /\ processing' = FALSE
        /\ status' = <<"Ready">>
        /\ pc' = "idle"

\* TuiApp::toggle_screen_watching on the list msgs; ok is whether
\* ScreenWatcher::new() succeeds
toggle_screen_watching(msgs, id, ok) ==
    IF ~screen_watching
    THEN IF ok
         THEN /\ screen_watching' = TRUE
              /\ messages' = add_system_message(msgs, id,
                                 <<"Screen watching enabled. I can now see your screen.">>)
         ELSE /\ screen_watching' = FALSE
              /\ messages' = add_system_message(msgs, id,
                                 <<"Failed to enable screen watching: ", "no screen">>)
    ELSE /\ screen_watching' = FALSE
         /\ messages' = add_system_message(msgs, id, <<"Screen watching disabled.">>)

\* TuiApp::handle_command(cmd), after submit_message pushed the user message
\* (msgs); id is the next fresh uuid
handle_command(msgs, cmd, id) ==
    LET command == cmd[1]
        says(list, text) ==
            /\ messages' = add_system_message(list, id, text)
            /\ next_uuid' = id + 1
            /\ UNCHANGED <<conversation_id, running, screen_watching>>
    IN  CASE command = "/help" -> says(msgs, <<"Available commands:">>)
          [] command = "/clear" -> says(<<>>, <<"Chat cleared">>)
          [] command = "/watch" ->
                /\ \E ok \in BOOLEAN : toggle_screen_watching(msgs, id, ok)
                /\ next_uuid' = id + 1
                /\ UNCHANGED <<conversation_id, running>>
          [] command = "/model" ->
                says(msgs,
                     IF Len(cmd) > 1
                     THEN <<"Switched to model: ">>
                          \o Join([k \in 1..(Len(cmd) - 1) |-> <<cmd[k + 1]>>], <<" ">>)
                     ELSE <<"Current model: ", "default">>)
          [] command = "/status" ->
                says(msgs, <<"Status:", "Screen watching: ",
                             IF screen_watching THEN "ON" ELSE "OFF",
                             "Messages: ", ToString(Len(msgs))>>)
          [] command = "/new" ->
                /\ conversation_id' = id
                /\ messages' = add_system_message(<<>>, id + 1,
                                                  <<"Started new conversation">>)
                /\ next_uuid' = id + 2
                /\ UNCHANGED <<running, screen_watching>>
          [] command = "/exit" ->
                /\ running' = FALSE
                /\ messages' = msgs
                /\ next_uuid' = id
                /\ UNCHANGED <<conversation_id, screen_watching>>
          [] OTHER ->
                says(msgs, <<"Unknown command: ", command,
                             ". Type /help for available commands.">>)

----------------------------------------------------------------------------
(* cnapse run: src/cli/commands/run.rs, and the agents' can_handle scores.   *)
(* A request text is a sequence of characters, so that to_lowercase and      *)
(* contains are computed as str computes them.                               *)

\* char::to_lowercase on the letters
UpperLetters ==
    <<"A", "B", "C", "D", "E", "F", "G", "H", "I", "J", "K", "L", "M",
      "N", "O", "P", "Q", "R", "S", "T", "U", "V", "W", "X", "Y", "Z">>
LowerLetters ==
    <<"a", "b", "c", "d", "e", "f", "g", "h", "i", "j", "k", "l", "m",
      "n", "o", "p", "q", "r", "s", "t", "u", "v", "w", "x", "y", "z">>
to_lowercase(s) ==
    [k \in DOMAIN s |->
        IF \E i \in DOMAIN UpperLetters : UpperLetters[i] = s[k]
        THEN LowerLetters[CHOOSE i \in DOMAIN UpperLetters : UpperLetters[i] = s[k]]
        ELSE s[k]]

\* a.contains(k1) || a.contains(k2) || ...
ContainsAny(s, keywords) == \E k \in keywords : Contains(s, k)

\* route_query: the keywords of each branch, in the order of the branches
RouteCoderWords ==
    { <<"c", "o", "d", "e">>,
      <<"w", "r", "i", "t", "e">>,
      <<"f", "u", "n", "c", "t", "i", "o", "n">>,
      <<"s", "c", "r", "i", "p", "t">>,
      <<"d", "e", "b", "u", "g">>,
      <<"f", "i", "x">> }
\* route_query, second branch
RouteFilerWords ==
    { <<"f", "i", "l", "e">>,
      <<"f", "o", "l", "d", "e", "r">>,
      <<"d", "i", "r", "e", "c", "t", "o", "r", "y">>,
      <<"f", "i", "n", "d">>,
      <<"s", "e", "a", "r", "c", "h">>,
      <<"l", "i", "s", "t">> }
\* route_query, third branch
RouteShellWords ==
    { <<"r", "u", "n">>,
      <<"e", "x", "e", "c", "u", "t", "e">>,
      <<"c", "o", "m", "m", "a", "n", "d">>,
      <<"i", "n", "s", "t", "a", "l", "l">>,
      <<"p", "r", "o", "c", "e", "s", "s">>,
      <<"p", "o", "r", "t">> }
\* route_query, fourth branch
RouteMemoryWords ==
    { <<"r", "e", "m", "e", "m", "b", "e", "r">>,
      <<"r", "e", "c", "a", "l", "l">>,
      <<"h", "i", "s", "t", "o", "r", "y">>,
      <<"y", "e", "s", "t", "e", "r", "d", "a", "y">>,
      <<"e", "a", "r", "l", "i", "e", "r">> }
\* route_query, fifth branch
RouteAppWords ==
    { <<"a", "p", "p">>,
      <<"w", "e", "b", "a", "p", "p">>,
      <<"w", "e", "b", "s", "i", "t", "e">>,
      <<"l", "a", "u", "n", "c", "h", "e", "r">> }

\* The agent names (a name is a one-token string)
CODER == <<"coder">>
FILER == <<"filer">>
SHELL == <<"shell">>
MEMORY == <<"memory">>
APP == <<"app">>

\* run::route_query: the first branch one of whose keywords the lowercased
\* query contains; shell when none does
route_query(q) ==
    LET query_lower == to_lowercase(q)
    IN  IF ContainsAny(query_lower, RouteCoderWords) THEN CODER
        ELSE IF ContainsAny(query_lower, RouteFilerWords) THEN FILER
        ELSE IF ContainsAny(query_lower, RouteShellWords) THEN SHELL
        ELSE IF ContainsAny(query_lower, RouteMemoryWords) THEN MEMORY
        ELSE IF ContainsAny(query_lower, RouteAppWords) THEN APP
        ELSE SHELL

\* The keywords of each agent's can_handle
CoderScoreWords ==
    { <<"c", "o", "d", "e">>,
      <<"w", "r", "i", "t", "e">>,
      <<"f", "u", "n", "c", "t", "i", "o", "n">>,
      <<"d", "e", "b", "u", "g">> }
\* FilerAgent::can_handle
FilerScoreWords ==
    { <<"f", "i", "l", "e">>,
      <<"f", "o", "l", "d", "e", "r">>,
      <<"d", "i", "r", "e", "c", "t", "o", "r", "y">>,
      <<"s", "e", "a", "r", "c", "h">> }
\* ShellAgent::can_handle
ShellScoreWords ==
    { <<"r", "u", "n">>,
      <<"e", "x", "e", "c", "u", "t", "e">>,
      <<"c", "o", "m", "m", "a", "n", "d">>,
      <<"p", "r", "o", "c", "e", "s", "s">>,
      <<"p", "o", "r", "t">> }
\* MemoryAgent::can_handle
MemoryScoreWords ==
    { <<"r", "e", "m", "e", "m", "b", "e", "r">>,
      <<"r", "e", "c", "a", "l", "l">>,
      <<"h", "i", "s", "t", "o", "r", "y">>,
      <<"y", "e", "s", "t", "e", "r", "d", "a", "y">>,
      <<"e", "a", "r", "l", "i", "e", "r">> }
\* AppAgent::can_handle
AppScoreWords ==
    { <<"a", "p", "p">>,
      <<"w", "e", "b", "a", "p", "p">>,
      <<"w", "e", "b", "s", "i", "t", "e">>,
      <<"d", "a", "s", "h", "b", "o", "a", "r", "d">>,
      <<"i", "n", "t", "e", "r", "f", "a", "c", "e">> }

\* Agent::can_handle of the five agents, in tenths (0.9 is 9, 0.2 is 2, 0.1 is 1)
can_handle(agent, intent) ==
    LET lower == to_lowercase(intent)
    IN  CASE agent = CODER -> IF ContainsAny(lower, CoderScoreWords) THEN 9 ELSE 1
          [] agent = FILER -> IF ContainsAny(lower, FilerScoreWords) THEN 9 ELSE 1
          [] agent = SHELL -> IF ContainsAny(lower, ShellScoreWords) THEN 9 ELSE 2
          [] agent = MEMORY -> IF ContainsAny(lower, MemoryScoreWords) THEN 9 ELSE 1
          [] agent = APP -> IF ContainsAny(lower, AppScoreWords) THEN 9 ELSE 1

\* What execute_with_agent finds on the machine: the agent's model file
\* exists, the provider has an API key
RouteEnvs == [model_exists : BOOLEAN, has_credentials : BOOLEAN]

\* run::execute_with_agent
execute_with_agent(q, agent, prov, env) ==
    IF prov = "local"
    THEN IF agent \notin {<<"router">>, CODER, SHELL, FILER, MEMORY, APP}
         THEN [tag |-> "Err", text |-> <<"Unknown agent: ">> \o agent]
         ELSE IF ~env.model_exists
         THEN [tag |-> "Err", text |-> <<"Model not found: ">> \o agent]
         ELSE [tag |-> "Ok",
               text |-> <<"[Local inference not yet implemented]", "Agent: ">> \o agent]
    ELSE IF prov \in {"anthropic", "openai", "openrouter"}
    THEN IF ~env.has_credentials
         THEN [tag |-> "Err", text |-> <<"No API key for ", prov>>]
         ELSE [tag |-> "Ok",
               text |-> <<"[", prov, " API call not yet implemented]", "Agent: ">>
                        \o agent]
    ELSE [tag |-> "Err", text |-> <<"Unknown provider: ", prov>>]

\* process_query as it would be if the forced agent were only a hint
process_query_IgnoresForced(q, prov, forced, env) ==
    LET agent == route_query(q)
        response == execute_with_agent(q, agent, prov, env)
    IN  [tag |-> response.tag, selected |-> agent, routed |-> TRUE,
         agent |-> IF response.tag = "Ok" THEN agent ELSE <<>>,
         text |-> response.text]

\* run::process_query: the agent it selects (selected; routed tells whether
\* route_query was called) and the pair it returns, or the error
process_query(q, prov, forced, env) ==
    LET agent == IF forced.some THEN forced.v ELSE route_query(q)
        response == execute_with_agent(q, agent, prov, env)
    IN  [tag |-> response.tag, selected |-> agent, routed |-> ~forced.some,
         agent |-> IF response.tag = "Ok" THEN agent ELSE <<>>,
         text |-> response.text]

\* The words of the request texts, and the texts: one to MaxWords words
\* separated by a space
RouteWords ==
    { <<"c", "o", "d", "e">>,
      <<"W", "r", "i", "t", "e">>,
      <<"s", "c", "r", "i", "p", "t">>,
      <<"f", "i", "x">>,
      <<"l", "i", "s", "t">>,
      <<"f", "i", "l", "e">>,
      <<"f", "i", "n", "d">>,
      <<"r", "u", "n">>,
      <<"i", "m", "p", "o", "r", "t">>,
      <<"r", "e", "c", "a", "l", "l">>,
      <<"h", "a", "p", "p", "y">>,
      <<"h", "e", "l", "l", "o">> }

----------------------------------------------------------------------------
(* MemoryStore, the queries: get_messages, search_messages and the notes *)

\* ORDER BY created_at DESC over the rows of indices ks of a table: the
\* sequence of their indices, newest first; rows of equal created_at come in
\* the order `ties` names
RECURSIVE OrderByCreatedAtDesc(_, _, _)
OrderByCreatedAtDesc(rows, ks, ties) ==
    IF ks = {} THEN <<>>
    ELSE LET newest == {k \in ks :
                           \A j \in ks :
                               ~Later(rows[j].created_at, rows[k].created_at)}
             first == IF ties = "first_inserted"
                      THEN CHOOSE k \in newest : \A j \in newest : k <= j
                      ELSE CHOOSE k \in newest : \A j \in newest : k >= j
         IN  <<first>> \o OrderByCreatedAtDesc(rows, ks \ {first}, ties)

\* LIMIT n on an ordered sequence of row indices
Limit(ordered, n) == SubSeq(ordered, 1, IF Len(ordered) < n THEN Len(ordered) ELSE n)

\* The StoredMessage the query_map closure builds from a row. Its created_at
\* (the parse of the stored text, Utc::now() when that fails), tokens and
\* metadata are left out: nothing below reads them.
StoredMessage(row) ==
    [id |-> row.id, session_id |-> row.session_id, role |-> row.role,
     content |-> row.content, agent |-> row.agent]

\* limit.unwrap_or(100)
GetMessagesDefaultLimit == 100

\* How a query of the store can end: it runs, or prepare / a row fails
QueryOutcomes == {"ok", "query_fails"}

\* MemoryStore::get_messages(session_id, limit):
\* SELECT ... FROM messages WHERE session_id = ?1 ORDER BY created_at DESC LIMIT ?2
MemoryStore_get_messages(o, sid, limit, ties) ==
    LET n == IF limit.some THEN limit.v ELSE GetMessagesDefaultLimit
        ks == {k \in DOMAIN store_messages : store_messages[k].session_id = sid}
        ordered == Limit(OrderByCreatedAtDesc(store_messages, ks, ties), n)
    IN  IF o = "ok"
        THEN [ok |-> TRUE,
              rows |-> [k \in DOMAIN ordered |-> StoredMessage(store_messages[ordered[k]])]]
        ELSE [ok |-> FALSE, rows |-> <<>>]

\* SQLite's LIKE on one character: ASCII letters match without regard to case
LikeSameChar(a, b) == to_lowercase(<<a>>) = to_lowercase(<<b>>)

\* text LIKE pat, from position j of text and i of pat: % matches any run of
\* characters, _ any one character, every other character itself
RECURSIVE LikeFrom(_, _, _, _)
LikeFrom(pat, i, text, j) ==
    IF i > Len(pat) THEN j > Len(text)
    ELSE IF pat[i] = "%"
    THEN \E k \in j..(Len(text) + 1) : LikeFrom(pat, i + 1, text, k)
    ELSE /\ j <= Len(text)
         /\ (pat[i] = "_" \/ LikeSameChar(pat[i], text[j]))
         /\ LikeFrom(pat, i + 1, text, j + 1)

Like(text, pat) == LikeFrom(pat, 1, text, 1)

\* format!("%{}%", query)
SearchPattern(q) == <<"%">> \o q \o <<"%">>

\* MemoryStore::search_messages(query, limit):
\* SELECT ... FROM messages WHERE content LIKE ?1 ORDER BY created_at DESC LIMIT ?2
MemoryStore_search_messages(o, q, limit, ties) ==
    LET pattern == SearchPattern(q)
        ks == {k \in DOMAIN store_messages : Like(store_messages[k].content, pattern)}
        ordered == Limit(OrderByCreatedAtDesc(store_messages, ks, ties), limit)
    IN  IF o = "ok"
        THEN [ok |-> TRUE,
              rows |-> [k \in DOMAIN ordered |-> StoredMessage(store_messages[ordered[k]])]]
        ELSE [ok |-> FALSE, rows |-> <<>>]

\* format!("[{}]: {}", m.role, m.content)
RetrievedLine(m) == <<"[", m.role, "]: ">> \o m.content

\* ContextManager::get_context_with_retrieval(query); o is how the store's
\* search ends, ties the order it returns rows of equal created_at in.
\* The `?` on search_messages returns its error to the caller.
ContextManager_get_context_with_retrieval(o, q, ties) ==
    LET context == hot_messages
    IN  IF warm_chunks > 0
        THEN LET r == MemoryStore_search_messages(o, q, warm_chunks, ties)
                 relevant == r.rows
                 context_str == Join([k \in DOMAIN relevant |-> RetrievedLine(relevant[k])],
                                     <<"\n">>)
             IN  IF ~r.ok THEN [ok |-> FALSE, context |-> <<>>]
                 ELSE IF relevant # <<>>
                 THEN [ok |-> TRUE,
                       context |->
                          <<AgentMessage("System",
                               <<"Relevant context from previous conversations:", "\n">>
                               \o context_str)>> \o context]
                 ELSE [ok |-> TRUE, context |-> context]
        ELSE [ok |-> TRUE, context |-> context]

\* serde_json's string escaping: a quote or a backslash gets a backslash
\* before it (the texts here hold no control character)
RECURSIVE JsonEscape(_)
JsonEscape(s) ==
    IF s = <<>> THEN <<>>
    ELSE (IF Head(s) \in {"\"", "\\"} THEN <<"\\", Head(s)>> ELSE <<Head(s)>>)
         \o JsonEscape(Tail(s))

\* serde_json::to_string(tags) of a &[String]: ["t1","t2"]
TagsToJson(tags) ==
    <<"[">>
    \o Join([k \in DOMAIN tags |-> <<"\"">> \o JsonEscape(tags[k]) \o <<"\"">>], <<",">>)
    \o <<"]">>

\* The array of strings that starts at position p of s, read element by
\* element: in_str is whether p is inside a string, cur the string read so
\* far, acc the strings read. None when s is no array of strings.
RECURSIVE JsonStrings(_, _, _, _, _)
JsonStrings(s, p, in_str, cur, acc) ==
    IF p > Len(s) THEN None
    ELSE IF in_str
    THEN IF s[p] = "\\"
         THEN IF p + 1 > Len(s) THEN None
              ELSE JsonStrings(s, p + 2, TRUE, Append(cur, s[p + 1]), acc)
         ELSE IF s[p] = "\""
         THEN JsonStrings(s, p + 1, FALSE, <<>>, Append(acc, cur))
         ELSE JsonStrings(s, p + 1, TRUE, Append(cur, s[p]), acc)
    ELSE IF s[p] = "\"" THEN JsonStrings(s, p + 1, TRUE, <<>>, acc)
    ELSE IF s[p] = "," THEN JsonStrings(s, p + 1, FALSE, <<>>, acc)
    ELSE IF s[p] = "]" /\ p = Len(s) THEN Some(acc)
    ELSE None

\* serde_json::from_str::<Vec<String>>(&tags_json).unwrap_or_default()
TagsFromJson(s) ==
    LET parsed == IF s # <<>> /\ s[1] = "[" THEN JsonStrings(s, 2, FALSE, <<>>, <<>>)
                  ELSE None
    IN  IF parsed.some THEN parsed.v ELSE <<>>

\* MemoryStore::save_note(content, tags): INSERT INTO notes (id, content, tags);
\* ok is whether the INSERT succeeds. created_at takes its default.
MemoryStore_save_note(content, tags, ok) ==
    LET id == NewUuid
        tags_json == TagsToJson(tags)
    IN  IF ok
        THEN [ok |-> TRUE, id |-> id, uuid |-> id + 1,
              notes |-> Append(store_notes, [id |-> id, content |-> content,
                                             tags |-> tags_json,
                                             created_at |-> DatetimeNow])]
        ELSE [ok |-> FALSE, id |-> id, uuid |-> id, notes |-> store_notes]

\* The StoredNote the query_map closure builds from a row (its created_at
\* left out, as for StoredMessage)
StoredNote(row) ==
    [id |-> row.id, content |-> row.content, tags |-> TagsFromJson(row.tags)]

\* vec.contains(&t)
VecContains(v, t) == \E k \in DOMAIN v : v[k] = t

\* get_notes as it would be if a note had to carry every tag of the filter
MemoryStore_get_notes_AllTags(o, tags, limit, ties) ==
    LET ordered == Limit(OrderByCreatedAtDesc(store_notes, DOMAIN store_notes, ties), limit)
        notes == [k \in DOMAIN ordered |-> StoredNote(store_notes[ordered[k]])]
    IN  IF o # "ok" THEN [ok |-> FALSE, rows |-> <<>>]
        ELSE IF tags.some
        THEN [ok |-> TRUE,
              rows |-> SelectSeq(notes,
                          LAMBDA n : \A k \in DOMAIN tags.v : VecContains(n.tags, tags.v[k]))]
        ELSE [ok |-> TRUE, rows |-> notes]

\* MemoryStore::get_notes(tags, limit):
\* SELECT id, content, tags, created_at FROM notes ORDER BY created_at DESC LIMIT ?1
\* then filter(|n| filter_tags.iter().any(|t| n.tags.contains(t)))
MemoryStore_get_notes(o, tags, limit, ties) ==
    LET ordered == Limit(OrderByCreatedAtDesc(store_notes, DOMAIN store_notes, ties), limit)
        notes == [k \in DOMAIN ordered |-> StoredNote(store_notes[ordered[k]])]
    IN  IF o # "ok" THEN [ok |-> FALSE, rows |-> <<>>]
        ELSE IF tags.some
        THEN [ok |-> TRUE,
              rows |-> SelectSeq(notes,
                          LAMBDA n : \E k \in DOMAIN tags.v : VecContains(n.tags, tags.v[k]))]
        ELSE [ok |-> TRUE, rows |-> notes]

----------------------------------------------------------------------------
(* The bounds of the model *)

\* submit_message calls (the length of TuiApp.history): the user types
\* nothing more after that many
MaxHistory == 1
\* settings.memory.hot_turns
MaxHotTurns == 1
\* ContextManager calls
MaxCtxCalls == 4
\* uuids drawn before Ctrl+L, Ctrl+W and the screen watcher stop adding
\* system messages
MaxUuid == 5
\* words of a request text
MaxWords == 2
\* days and seconds the clock advances by
MaxDay == 1
MaxSecond == 1
\* The largest LIMIT a caller of the store passes explicitly
MaxLimit == 2
\* rows of the table messages in the specification of the queries
MaxMessages == 2
\* rows of the table notes
MaxNotes == 2
\* settings.memory.warm_chunks
MaxWarmChunks == 2
\* items of an inline directive
MaxItems == 3
\* parts (words and inline directives) of a reply text
MaxReplyParts == 2
\* finished turns of the conversation a turn starts from
MaxPriorTurns == 6
\* screen contents (the hashes a capture can give)
MaxHash == 3
\* characters of a text given to Settings::set
MaxValueLen == 1

----------------------------------------------------------------------------
(* TuiApp: the key handlers of handle_key, called by run one at a time; a    *)
(* turn is awaited inside handle_key, so no key is handled while pc # "idle" *)

\* run is between two turns
Idle == pc = "idle" /\ running

\* A Ctrl+C pressed during the turn waits to be read
QueuedCtrlC == turn.cancel_at # "none"

\* run reads a key the user presses now: no earlier key is waiting
AtPrompt == Idle /\ ~QueuedCtrlC

\* The user presses Ctrl+C while the turn is awaited: run is inside
\* handle_key(..).await, so the event stays in the queue until the turn ends
PressCtrlCDuringTurn ==
    /\ pc # "idle"
    /\ turn.cancel_at = "none"
    /\ turn' = [turn EXCEPT !.cancel_at = pc]
    /\ UNCHANGED <<input, messages, conversation_id, status, processing, history,
                   running, screen_watching, pc, storeVars, execVars, outsideTui>>

\* handle_key, Ctrl+C (pressed now, or read from the queue after the turn)
KeyCtrlC ==
    /\ Idle
    /\ running' = FALSE
    /\ UNCHANGED <<input, messages, conversation_id, status, processing, history,
                   screen_watching, pc, turn, storeVars, execVars, outsideTui>>

\* handle_key, Ctrl+L
KeyCtrlL ==
    /\ AtPrompt
    /\ next_uuid < MaxUuid
    /\ messages' = add_system_message(<<>>, NewUuid, <<"Screen cleared">>)
    /\ next_uuid' = next_uuid + 1
    /\ UNCHANGED <<input, conversation_id, status, processing, history, running,
                   screen_watching, pc, turn, store_sessions, store_messages,
                   execVars, outsideTui>>

\* handle_key, Ctrl+W
KeyCtrlW ==
    /\ AtPrompt
    /\ next_uuid < MaxUuid
    /\ \E ok \in BOOLEAN : toggle_screen_watching(messages, NewUuid, ok)
    /\ next_uuid' = next_uuid + 1
    /\ UNCHANGED <<input, conversation_id, status, processing, history, running,
                   pc, turn, store_sessions, store_messages, execVars, outsideTui>>

\* handle_key, a character key (the cursor is kept at the end of the input)
KeyChar ==
    /\ AtPrompt
    /\ Len(history) < MaxHistory
    /\ \E c \in InputWords :
          /\ Append(input, c) \in Inputs
          /\ input' = Append(input, c)
    /\ UNCHANGED <<messages, conversation_id, status, processing, history, running,
                   screen_watching, pc, turn, storeVars, execVars, outsideTui>>

\* handle_key, Backspace
KeyBackspace ==
    /\ AtPrompt
    /\ Len(input) > 0
    /\ input' = SubSeq(input, 1, Len(input) - 1)
    /\ UNCHANGED <<messages, conversation_id, status, processing, history, running,
                   screen_watching, pc, turn, storeVars, execVars, outsideTui>>

\* run, "Check screen watcher": a change the watcher reports becomes a system
\* message
ScreenChange ==
    /\ Idle
    /\ screen_watching
    /\ next_uuid < MaxUuid
    /\ messages' = add_system_message(messages, NewUuid,
                       <<"Screen change detected: ", "a desktop">>)
    /\ next_uuid' = next_uuid + 1
    /\ UNCHANGED <<input, conversation_id, status, processing, history, running,
                   screen_watching, pc, turn, store_sessions, store_messages,
                   execVars, outsideTui>>

\* Enter as it would be if keys were handled while a turn is awaited and the
\* Enter arm had no condition
CanSubmit_DuringTurn == running

\* When Enter submits: run handles the key (no turn is being awaited) and the
\* Enter arm finds an input and no turn in progress
CanSubmit ==
    /\ AtPrompt
    /\ input # <<>>
    /\ ~processing

\* handle_key, Enter: submit_message up to its first await. A slash command is
\* handled at once; any other input starts a turn (process_with_agent up to
\* create_backend).
KeyEnter ==
    /\ CanSubmit
    /\ LET user_input == input
           id == NewUuid
           msgs == Append(messages, ChatMessage(id, "User", user_input, FALSE))
       IN  /\ input' = <<>>
           /\ history' = Append(history, user_input)
           /\ IF StartsWithSlash(user_input)
              THEN /\ handle_command(msgs, user_input, id + 1)
                   /\ UNCHANGED <<status, processing, pc, turn>>
              ELSE LET assistant_msg_id == id + 1
                       shown == Append(msgs, ChatMessage(assistant_msg_id, "Assistant",
                                                         <<>>, TRUE))
                   IN  /\ processing' = TRUE
                       /\ status' = <<"Thinking...">>
                       /\ messages' = shown
                       /\ next_uuid' = id + 2
                       /\ \E desc \in ScreenDescriptions :
                             turn' = [NoTurn EXCEPT
                                 !.user_input = user_input,
                                 !.assistant_msg_id = assistant_msg_id,
                                 !.context_messages = BuildContext(shown),
                                 !.context = ScreenContext(user_input, desc),
                                 !.pre_messages = messages,
                                 !.pre_store = store_messages]
                       /\ pc' = "create_backend"
                       /\ UNCHANGED <<conversation_id, running, screen_watching>>
    /\ UNCHANGED <<store_sessions, store_messages, execVars, outsideTui>>

----------------------------------------------------------------------------
(* TuiApp::process_with_agent, from one await or fallible call to the next *)

\* The loop as it would be if a failed call ended it
LoopNext_BreakOnFailure(i, n, result) ==
    IF result.tag = "Err" \/ ~result.success THEN n ELSE i + 1

\* process_with_agent, the for loop over tool_calls: the position after the
\* call with 0-based index i of n returned `result` (the loop has no break)
LoopNext(i, n, result) == i + 1

\* create_backend(&self.settings).await?, then the request is built
CreateBackend ==
    /\ pc = "create_backend"
    /\ \E ok \in BOOLEAN :
          IF ok
          THEN /\ turn' = [turn EXCEPT !.all_messages =
                              <<AgentMessage("System", SystemPrompt)>>
                              \o turn.context_messages
                              \o <<AgentMessage("User", turn.context)>>]
               /\ pc' = "infer"
               /\ UNCHANGED <<messages, processing, status>>
          ELSE /\ turn' = [turn EXCEPT !.outcome = "Err", !.failed_at = "create_backend"]
               /\ FinishTurn(messages, FALSE, <<"Configuration error">>)
    /\ UNCHANGED <<input, conversation_id, history, running, screen_watching,
                   storeVars, execVars, outsideTui>>

\* backend.infer(request).await?, then parse_tool_calls and the Running entries
Infer ==
    /\ pc = "infer"
    /\ \/ /\ turn' = [turn EXCEPT !.requests = Append(@, turn.all_messages),
                                  !.outcome = "Err", !.failed_at = "infer"]
          /\ FinishTurn(messages, FALSE, <<"Inference error">>)
       \/ \E reply \in Replies :
             LET tool_calls == parse_tool_calls(reply)
                 last == Len(messages)
             IN  /\ turn' = [turn EXCEPT !.requests = Append(@, turn.all_messages),
                                         !.response = reply,
                                         !.final_response = reply,
                                         !.tool_calls = tool_calls]
                 /\ messages' =
                       IF tool_calls # <<>> /\ last > 0
                       THEN [messages EXCEPT ![last].tool_calls =
                               @ \o [k \in DOMAIN tool_calls |->
                                       ToolCall(tool_calls[k].name, "Running", None)]]
                       ELSE messages
                 /\ pc' = IF tool_calls = <<>> THEN "save_user" ELSE "tools"
                 /\ UNCHANGED <<processing, status>>
    /\ UNCHANGED <<input, conversation_id, history, running, screen_watching,
                   storeVars, execVars, outsideTui>>

\* One pass of "Execute each tool"; after the last pass, "If tools were
\* executed, get a follow-up response": the follow-up request is built
ExecuteTool ==
    /\ pc = "tools"
    /\ turn.i < Len(turn.tool_calls)
    /\ LET i == turn.i
           tool == turn.tool_calls[i + 1]
           last == Len(messages)
       IN  \E os \in OsOutcomes(tool.name) :
             LET result == execute(tool, os)
                 shown ==
                    IF result.tag = "Ok" /\ result.success
                    THEN ToolCall(tool.name, "Success", Some(result.output))
                    ELSE IF result.tag = "Ok"
                    THEN ToolCall(tool.name, "Failed", result.error)
                    ELSE ToolCall(tool.name, "Failed", Some(result.msg))
                 tool_results ==
                    IF result.tag = "Ok"
                    THEN Append(turn.tool_results,
                                <<"[", tool.name, " result: ">>
                                \o (IF result.success THEN result.output
                                    ELSE IF result.error.some THEN result.error.v
                                    ELSE <<"Failed">>)
                                \o <<"]">>)
                    ELSE turn.tool_results
                 next == LoopNext(i, Len(turn.tool_calls), result)
                 done == next >= Len(turn.tool_calls)
                 follow_up == done /\ tool_results # <<>>
             IN  /\ status' = <<"Running ", tool.name, "...">>
                 /\ exec_request' = tool
                 /\ exec_result' = result
                 /\ effects' = effects \o result.eff
                 /\ messages' =
                       IF last > 0 /\ i + 1 <= Len(messages[last].tool_calls)
                       THEN [messages EXCEPT ![last].tool_calls[i + 1] = shown]
                       ELSE messages
                 /\ turn' = [turn EXCEPT
                       !.i = next,
                       !.tool_results = tool_results,
                       !.executed = Append(@, tool),
                       !.results = Append(@, result),
                       !.all_messages =
                          IF follow_up
                          THEN @ \o <<AgentMessage("Assistant", turn.response),
                                      AgentMessage("User", <<"Tool results:", "\n">>
                                          \o Join(tool_results, <<"\n">>))>>
                          ELSE @]
                 /\ pc' = IF ~done THEN "tools"
                          ELSE IF follow_up THEN "followup" ELSE "save_user"
    /\ UNCHANGED <<input, conversation_id, processing, history, running,
                   screen_watching, storeVars, outsideTui>>

\* backend.infer(follow_up_request).await, whose error is dropped
FollowUp ==
    /\ pc = "followup"
    /\ \/ turn' = [turn EXCEPT !.requests = Append(@, turn.all_messages),
                               !.follow_up = "Err"]
       \/ \E follow_up \in FollowUpReplies :
             turn' = [turn EXCEPT !.requests = Append(@, turn.all_messages),
                                  !.follow_up = "Ok",
                                  !.final_response =
                                      turn.response \o <<"\n\n">> \o follow_up]
    /\ pc' = "save_user"
    /\ UNCHANGED <<input, messages, conversation_id, status, processing, history,
                   running, screen_watching, storeVars, execVars, outsideTui>>

\* "Save to memory", the first write: memory.add_message(.., "user", input)?
SaveUser ==
    /\ pc = "save_user"
    /\ \E o \in AddOutcomes :
          LET r == MemoryStore_add_message(o, conversation_id, "user",
                                           turn.user_input, None)
          IN  /\ store_messages' = r.messages
              /\ store_sessions' = r.sessions
              /\ next_uuid' = r.uuid
              /\ IF r.ok
                 THEN /\ pc' = "save_assistant"
                      /\ UNCHANGED <<messages, processing, status, turn>>
                 ELSE /\ turn' = [turn EXCEPT !.outcome = "Err", !.failed_at = "save_user"]
                      /\ FinishTurn(messages, FALSE, <<"Database error">>)
    /\ UNCHANGED <<input, conversation_id, history, running, screen_watching,
                   execVars, outsideTui>>

\* "Save to memory", the second write, and Ok(final_response)
SaveAssistant ==
    /\ pc = "save_assistant"
    /\ \E o \in AddOutcomes :
          LET r == MemoryStore_add_message(o, conversation_id, "assistant",
                                           turn.final_response, None)
          IN  /\ store_messages' = r.messages
              /\ store_sessions' = r.sessions
              /\ next_uuid' = r.uuid
              /\ IF r.ok
                 THEN /\ turn' = [turn EXCEPT !.outcome = "Ok"]
                      /\ FinishTurn(messages, TRUE, turn.final_response)
                 ELSE /\ turn' = [turn EXCEPT !.outcome = "Err",
                                              !.failed_at = "save_assistant"]
                      /\ FinishTurn(messages, FALSE, <<"Database error">>)
    /\ UNCHANGED <<input, conversation_id, history, running, screen_watching,
                   execVars, outsideTui>>

----------------------------------------------------------------------------
(* The TUI: one TuiApp, its MemoryStore and its ToolExecutor *)

\* Result<ToolResult> before any call
NoResult ==
    [tag |-> "none", success |-> FALSE, output |-> <<>>, error |-> None,
     msg |-> <<>>, eff |-> <<>>]

\* No MemoryStore call made yet
NoArg == [q |-> <<>>, limit |-> None]
NoCall ==
    [op |-> "none", ok |-> FALSE, id |-> 0, day |-> 0, fault |-> "none",
     arg |-> NoArg]

\* The time at which the program starts
StartTime == [day |-> 0, sec |-> 0]

InitTimeIdle ==
    /\ clock = StartTime
    /\ store_last = NoCall
    /\ tie_order = "first_inserted"

\* No Settings call made
NoSettingsCall == [op |-> "none", path |-> <<>>, value |-> <<>>, ok |-> TRUE,
                   before |-> <<>>, ret |-> None]
InitSettingsIdle ==
    /\ settings = <<>>
    /\ settings_last = NoSettingsCall

\* No RouterAgent call made
InitRouterIdle == router_ret = <<>>

\* No ScreenWatcher made
InitWatcherIdle ==
    /\ watcher = <<>>
    /\ capture_task = "none"
    /\ capture_channel = <<>>
    /\ watcher_ret = None

\* No response parsed
NoDirective == [name |-> "", items |-> <<>>]
NoReply == [form |-> "none", name |-> "", parts |-> <<>>, parsed |-> FALSE]
InitParseIdle ==
    /\ parse_input = NoDirective
    /\ parse_ret = <<>>
    /\ model_reply = NoReply

\* No note saved, no query made
InitQueryIdle ==
    /\ store_notes = <<>>
    /\ store_ret = <<>>

\* No process_query call made yet
NoRoute ==
    [tag |-> "none", selected |-> <<>>, routed |-> FALSE, agent |-> <<>>,
     text |-> <<>>]

InitRouteIdle ==
    /\ query = <<>>
    /\ provider = ""
    /\ forced_agent = None
    /\ route_ret = NoRoute

InitExecIdle ==
    /\ exec_request = ToolRequest("", EmptyMap)
    /\ exec_result = NoResult
    /\ effects = <<>>

\* No get_context_with_retrieval call made, or its result dropped
NoContext == [tag |-> "none", context |-> <<>>, q |-> <<>>, fault |-> "none"]

InitCtxIdle ==
    /\ session_id = 0
    /\ hot_messages = <<>>
    /\ hot_turns = 0
    /\ ctx_ret = "none"
    /\ ctx_added = <<>>
    /\ ctx_failed = FALSE
    /\ ctx_calls = 0
    /\ warm_chunks = 0
    /\ ctx_context = NoContext

InitTuiIdle ==
    /\ input = <<>>
    /\ messages = <<>>
    /\ conversation_id = 0
    /\ status = <<"Ready">>
    /\ processing = FALSE
    /\ history = <<>>
    /\ running = FALSE
    /\ screen_watching = FALSE
    /\ pc = "idle"
    /\ turn = NoTurn

\* TuiApp::new: MemoryStore::open on an empty database, a fresh conversation
\* id (no session row is written for it) and the welcome message
Init ==
    /\ store_sessions = <<>>
    /\ store_messages = <<>>
    /\ conversation_id = 1
    /\ messages = <<ChatMessage(2, "System", Welcome, FALSE)>>
    /\ next_uuid = 3
    /\ input = <<>>
    /\ status = <<"Ready">>
    /\ processing = FALSE
    /\ history = <<>>
    /\ running = TRUE
    /\ screen_watching = FALSE
    /\ pc = "idle"
    /\ turn = NoTurn
    /\ InitExecIdle
    /\ InitCtxIdle
    /\ InitTimeIdle
    /\ InitRouteIdle
    /\ InitQueryIdle
    /\ InitParseIdle
    /\ InitWatcherIdle
    /\ InitRouterIdle
    /\ InitSettingsIdle

Next ==
    \/ KeyCtrlC
    \/ PressCtrlCDuringTurn
    \/ KeyCtrlL
    \/ KeyCtrlW
    \/ KeyChar
    \/ KeyBackspace
    \/ KeyEnter
    \/ ScreenChange
    \/ CreateBackend
    \/ Infer
    \/ ExecuteTool
    \/ FollowUp
    \/ SaveUser
    \/ SaveAssistant

Spec == Init /\ [][Next]_vars

----------------------------------------------------------------------------
(* The context manager: one ContextManager and its MemoryStore *)

\* The messages callers add, with the agent they name
CtxCalls ==
    { [message |-> AgentMessage("User", <<"a">>), agent |-> None],
      [message |-> AgentMessage("Assistant", <<"b">>), agent |-> Some(<<"coder">>)] }

\* ContextManager::new: the session of the day exists or is created
InitCtx ==
    /\ store_sessions = <<[id |-> 1, created_at |-> StartTime, updated |-> 0]>>
    /\ store_messages = <<>>
    /\ next_uuid = 2
    /\ session_id = 1
    /\ hot_messages = <<>>
    /\ hot_turns \in 0..MaxHotTurns
    /\ warm_chunks = 0
    /\ ctx_context = NoContext
    /\ ctx_ret = "none"
    /\ ctx_added = <<>>
    /\ ctx_failed = FALSE
    /\ ctx_calls = 0
    /\ InitExecIdle
    /\ InitTuiIdle
    /\ InitTimeIdle
    /\ InitRouteIdle
    /\ InitQueryIdle
    /\ InitParseIdle
    /\ InitWatcherIdle
    /\ InitRouterIdle
    /\ InitSettingsIdle

CtxAddMessage ==
    /\ ctx_calls < MaxCtxCalls
    /\ ctx_calls' = ctx_calls + 1
    /\ \E c \in CtxCalls, o \in AddOutcomes :
          ContextManager_add_message(c.message, c.agent, o)
    /\ UNCHANGED <<warm_chunks, ctx_context, outsideCtx>>

CtxNewSession ==
    /\ ctx_calls < MaxCtxCalls
    /\ ctx_calls' = ctx_calls + 1
    /\ \E ok \in BOOLEAN : ContextManager_new_session(ok)
    /\ UNCHANGED <<warm_chunks, ctx_context, outsideCtx>>

CtxClear ==
    /\ ctx_calls < MaxCtxCalls
    /\ ctx_calls' = ctx_calls + 1
    /\ \E o \in ClearOutcomes, ok \in BOOLEAN : ContextManager_clear(o, ok)
    /\ UNCHANGED <<warm_chunks, ctx_context, outsideCtx>>

NextCtx ==
    \/ CtxAddMessage
    \/ CtxNewSession
    \/ CtxClear

SpecCtx == InitCtx /\ [][NextCtx]_vars

----------------------------------------------------------------------------
(* Retrieval: one ContextManager with warm retrieval on or off, messages    *)
(* added to it, and get_context_with_retrieval                              *)

\* ContextManager::new: the session of the day exists or is created
InitRetrieval ==
    /\ store_sessions = <<[id |-> 1, created_at |-> StartTime, updated |-> 0]>>
    /\ store_messages = <<>>
    /\ next_uuid = 2
    /\ session_id = 1
    /\ hot_messages = <<>>
    /\ hot_turns \in 0..MaxHotTurns
    /\ warm_chunks \in 0..MaxWarmChunks
    /\ ctx_context = NoContext
    /\ ctx_ret = "none"
    /\ ctx_added = <<>>
    /\ ctx_failed = FALSE
    /\ ctx_calls = 0
    /\ InitExecIdle
    /\ InitTuiIdle
    /\ InitTimeIdle
    /\ InitRouteIdle
    /\ InitQueryIdle
    /\ InitParseIdle
    /\ InitWatcherIdle
    /\ InitRouterIdle
    /\ InitSettingsIdle

\* The texts callers retrieve for: one a stored message holds, one none holds
CtxQueries == { <<"a">>, <<"z">> }

\* context.get_context_with_retrieval(query)
CtxGetContextWithRetrieval ==
    /\ \E o \in QueryOutcomes, q \in CtxQueries, ties \in TieOrders :
          LET r == ContextManager_get_context_with_retrieval(o, q, ties)
          IN  ctx_context' = [tag |-> IF r.ok THEN "Ok" ELSE "Err",
                              context |-> r.context,
                              q |-> q,
                              fault |-> IF warm_chunks > 0 /\ o # "ok" THEN o ELSE "none"]
    /\ UNCHANGED <<storeVars, session_id, hot_messages, hot_turns, warm_chunks,
                   ctx_ret, ctx_added, ctx_failed, ctx_calls, outsideCtx>>

\* add_message and new_session; the caller has dropped the context an
\* earlier get_context_with_retrieval returned
RetrievalAddMessage ==
    /\ ctx_calls < MaxCtxCalls
    /\ ctx_calls' = ctx_calls + 1
    /\ \E c \in CtxCalls, o \in AddOutcomes :
          ContextManager_add_message(c.message, c.agent, o)
    /\ ctx_context' = NoContext
    /\ UNCHANGED <<warm_chunks, outsideCtx>>

RetrievalNewSession ==
    /\ ctx_calls < MaxCtxCalls
    /\ ctx_calls' = ctx_calls + 1
    /\ \E ok \in BOOLEAN : ContextManager_new_session(ok)
    /\ ctx_context' = NoContext
    /\ UNCHANGED <<warm_chunks, outsideCtx>>

NextRetrieval ==
    \/ RetrievalAddMessage
    \/ RetrievalNewSession
    \/ CtxGetContextWithRetrieval

SpecRetrieval == InitRetrieval /\ [][NextRetrieval]_vars


----------------------------------------------------------------------------
(* The tool executor alone: one execute call on each request *)

\* The requests: every name execute matches and two it does not, with every
\* argument map over the keys the tools read, each value a string or a number
ExecNames == RegisteredTools \cup {"http_get", "bogus"}
ExecKeys == {<<"path">>, <<"content">>, <<"command">>, <<"text">>, <<"pid">>}
ExecValues == {StrValue(<<"v">>), IntValue(<<"1">>)}
ExecArgMaps == UNION {[K -> ExecValues] : K \in SUBSET ExecKeys}
ExecRequests == {ToolRequest(n, a) : n \in ExecNames, a \in ExecArgMaps}

InitExec ==
    /\ exec_request \in ExecRequests
    /\ exec_result = NoResult
    /\ effects = <<>>
    /\ store_sessions = <<>>
    /\ store_messages = <<>>
    /\ next_uuid = 1
    /\ InitCtxIdle
    /\ InitTuiIdle
    /\ InitTimeIdle
    /\ InitRouteIdle
    /\ InitQueryIdle
    /\ InitParseIdle
    /\ InitWatcherIdle
    /\ InitRouterIdle
    /\ InitSettingsIdle

\* executor.execute(&request).await
ExecuteCall ==
    /\ exec_result = NoResult
    /\ \E os \in OsOutcomes(exec_request.name) :
          LET result == execute(exec_request, os)
          IN  /\ exec_result' = result
              /\ effects' = effects \o result.eff
    /\ UNCHANGED <<exec_request, outsideExec>>

NextExec == ExecuteCall

SpecExec == InitExec /\ [][NextExec]_vars

----------------------------------------------------------------------------
(* cnapse run alone: one process_query call on each request *)

\* The request texts of at most n words
RECURSIVE RouteTexts(_)
RouteTexts(n) ==
    IF n <= 1 THEN RouteWords
    ELSE RouteTexts(n - 1)
         \cup {t \o <<" ">> \o w : t \in RouteTexts(n - 1), w \in RouteWords}

Queries == RouteTexts(MaxWords)
Providers == {"local", "anthropic", "bogus"}
ForcedAgents ==
    {None} \cup {Some(a) : a \in {CODER, FILER, SHELL, MEMORY, APP,
                                  <<"router">>, <<"bogus">>}}

InitRoute ==
    /\ query \in Queries
    /\ provider \in Providers
    /\ forced_agent \in ForcedAgents
    /\ route_ret = NoRoute
    /\ store_sessions = <<>>
    /\ store_messages = <<>>
    /\ next_uuid = 1
    /\ InitExecIdle
    /\ InitCtxIdle
    /\ InitTuiIdle
    /\ InitTimeIdle
    /\ InitQueryIdle
    /\ InitParseIdle
    /\ InitWatcherIdle
    /\ InitRouterIdle
    /\ InitSettingsIdle

\* process_query(query, provider, agent, &settings).await
ProcessQuery ==
    /\ route_ret = NoRoute
    /\ \E env \in RouteEnvs :
          route_ret' = process_query(query, provider, forced_agent, env)
    /\ UNCHANGED <<query, provider, forced_agent, outsideRoute>>

NextRoute == ProcessQuery

SpecRoute == InitRoute /\ [][NextRoute]_vars

----------------------------------------------------------------------------
(* parse_tool_calls on a response that holds one inline directive *)

\* The items of a directive: a key=value item, unlabelled values, and the
\* empty item two commas in a row leave
DirectiveItems ==
    { <<"path", "=", "/a">>, <<"ls">>, <<"x">>, <<>> }

\* The item lists of at most n items
RECURSIVE ItemLists(_)
ItemLists(n) ==
    IF n = 0 THEN { <<>> }
    ELSE ItemLists(n - 1)
         \cup { Append(l, i) : l \in {m \in ItemLists(n - 1) : Len(m) = n - 1},
                               i \in DirectiveItems }

\* The text [TOOL: name(item, item, ...)]
Directive(name, items) ==
    <<"[TOOL:", name, "(">> \o Join(items, <<",">>) \o <<")", "]">>

InitParse ==
    /\ parse_input \in [name : {"shell", "bogus"}, items : ItemLists(MaxItems)]
    /\ parse_ret = <<>>
    /\ model_reply = NoReply
    /\ store_sessions = <<>>
    /\ store_messages = <<>>
    /\ next_uuid = 1
    /\ InitExecIdle
    /\ InitCtxIdle
    /\ InitTuiIdle
    /\ InitTimeIdle
    /\ InitRouteIdle
    /\ InitQueryIdle
    /\ InitSettingsIdle
    /\ InitRouterIdle
    /\ InitWatcherIdle

\* parse_tool_calls(&response)
ParseToolCalls ==
    /\ parse_ret = <<>>
    /\ parse_ret' = parse_tool_calls(Directive(parse_input.name, parse_input.items))
    /\ UNCHANGED <<parse_input, model_reply, outsideParse>>

NextParse == ParseToolCalls

SpecParse == InitParse /\ [][NextParse]_vars

----------------------------------------------------------------------------
(* parse_tool_calls on whole replies: JSON objects and free text *)

\* The parts a reply text is made of: a word, and two inline directives
ReplyParts == {"word", "shell_ls", "read_clipboard"}

\* The text of a part
PartText(part) ==
    CASE part = "shell_ls" -> <<"[TOOL:", "shell", "(", "ls", ")", "]">>
      [] part = "read_clipboard" -> <<"[TOOL:", "read_clipboard", "(", ")", "]">>
      [] OTHER -> <<"ok">>

\* The texts of at most n parts, as sequences of parts
RECURSIVE PartLists(_)
PartLists(n) ==
    IF n = 0 THEN { <<>> }
    ELSE PartLists(n - 1)
         \cup { Append(l, i) : l \in {m \in PartLists(n - 1) : Len(m) = n - 1},
                               i \in ReplyParts }

\* The text of a sequence of parts
RECURSIVE PartsText(_)
PartsText(parts) ==
    IF parts = <<>> THEN <<>> ELSE PartText(Head(parts)) \o PartsText(Tail(parts))

\* The text of a reply: free text, the object {"tool": "<name>"}, or the
\* object {"tool": "<name>", "args": {"text": "<the parts>"}}
ReplyText(r) ==
    CASE r.form = "json" ->
            <<"{", "\"", "tool", "\"", ":", "\"", r.name, "\"", "}">>
      [] r.form = "json_args" ->
            <<"{", "\"", "tool", "\"", ":", "\"", r.name, "\"", ",",
              "\"", "args", "\"", ":", "{", "\"", "text", "\"", ":", "\"">>
            \o PartsText(r.parts) \o <<"\"", "}", "}">>
      [] OTHER -> PartsText(r.parts)

\* The replies of the model
ReplyInputs ==
    [form : {"text"}, name : {""}, parts : PartLists(MaxReplyParts), parsed : {FALSE}]
    \cup [form : {"json"}, name : {"type_text", "shell", "bogus"}, parts : {<<>>},
          parsed : {FALSE}]
    \cup [form : {"json_args"}, name : {"type_text", "shell", "bogus"},
          parts : PartLists(MaxReplyParts), parsed : {FALSE}]

InitReply ==
    /\ model_reply \in ReplyInputs
    /\ parse_input = NoDirective
    /\ parse_ret = <<>>
    /\ store_sessions = <<>>
    /\ store_messages = <<>>
    /\ next_uuid = 1
    /\ InitExecIdle
    /\ InitCtxIdle
    /\ InitTuiIdle
    /\ InitTimeIdle
    /\ InitRouteIdle
    /\ InitQueryIdle
    /\ InitSettingsIdle
    /\ InitRouterIdle
    /\ InitWatcherIdle

\* parse_tool_calls(&response) on the whole reply
ParseReply ==
    /\ ~model_reply.parsed
    /\ model_reply' = [model_reply EXCEPT !.parsed = TRUE]
    /\ parse_ret' = parse_tool_calls(ReplyText(model_reply))
    /\ UNCHANGED <<parse_input, outsideParse>>

NextReply == ParseReply

SpecReply == InitReply /\ [][NextReply]_vars

----------------------------------------------------------------------------
(* The memory store alone: MemoryStore calls on one database, and the clock *)

\* MemoryStore::open on an empty database
InitStore ==
    /\ store_sessions = <<>>
    /\ store_messages = <<>>
    /\ next_uuid = 1
    /\ clock = StartTime
    /\ store_last = NoCall
    /\ tie_order \in TieOrders
    /\ InitExecIdle
    /\ InitCtxIdle
    /\ InitTuiIdle
    /\ InitRouteIdle
    /\ InitQueryIdle
    /\ InitParseIdle
    /\ InitWatcherIdle
    /\ InitRouterIdle
    /\ InitSettingsIdle

\* store.create_session()
StoreCreateSession ==
    /\ next_uuid < MaxUuid
    /\ \E ok \in BOOLEAN :
          LET r == MemoryStore_create_session(store_sessions, ok)
          IN  /\ store_sessions' = r.sessions
              /\ next_uuid' = r.uuid
              /\ store_last' = [op |-> "create_session", ok |-> r.ok, id |-> r.id,
                                day |-> Date(clock),
                                fault |-> IF ok THEN "none" ELSE "insert_fails",
                                arg |-> NoArg]
    /\ UNCHANGED <<store_messages, clock, tie_order, store_ret, outsideStore>>

\* store.get_or_create_session()
StoreGetOrCreateSession ==
    /\ next_uuid < MaxUuid
    /\ \E lookup \in LookupOutcomes, ok \in BOOLEAN :
          LET r == MemoryStore_get_or_create_session(lookup, ok)
          IN  /\ store_sessions' = r.sessions
              /\ next_uuid' = r.uuid
              /\ store_last' = [op |-> "get_or_create_session", ok |-> r.ok,
                                id |-> r.id, day |-> Date(clock),
                                fault |-> IF lookup # "ok" THEN lookup
                                          ELSE IF r.ok THEN "none"
                                          ELSE "insert_fails",
                                arg |-> NoArg]
    /\ UNCHANGED <<store_messages, clock, tie_order, store_ret, outsideStore>>

\* The session ids callers pass: those of the table, and one that names no row
StoreSessionArgs == {store_sessions[k].id : k \in DOMAIN store_sessions} \cup {0}

\* store.add_message(session_id, "user", content, None, None), on a session
\* of the table or on an id that names none
StoreAddMessage ==
    /\ next_uuid < MaxUuid
    /\ \E o \in AddOutcomes, sid \in StoreSessionArgs :
          LET r == MemoryStore_add_message(o, sid, "user", <<"a">>, None)
          IN  /\ store_messages' = r.messages
              /\ store_sessions' = r.sessions
              /\ next_uuid' = r.uuid
              /\ store_last' = [op |-> "add_message", ok |-> r.ok, id |-> sid,
                                day |-> Date(clock),
                                fault |-> IF o = "ok" THEN "none" ELSE o,
                                arg |-> [q |-> <<"a">>, limit |-> None]]
    /\ UNCHANGED <<clock, tie_order, store_ret, outsideStore>>

\* A second passes
TickSecond ==
    /\ clock.sec < MaxSecond
    /\ clock' = [clock EXCEPT !.sec = @ + 1]
    /\ UNCHANGED <<storeVars, store_last, tie_order, store_ret, outsideStore>>

\* Midnight (UTC) passes
NextDay ==
    /\ clock.day < MaxDay
    /\ clock' = [day |-> clock.day + 1, sec |-> 0]
    /\ UNCHANGED <<storeVars, store_last, tie_order, store_ret, outsideStore>>

NextStore ==
    \/ StoreCreateSession
    \/ StoreGetOrCreateSession
    \/ StoreAddMessage
    \/ TickSecond
    \/ NextDay

SpecStore == InitStore /\ [][NextStore]_vars

----------------------------------------------------------------------------
(* The messages of the store: add_message, get_messages and search_messages *)
(* on a database of two sessions, and the clock                             *)

\* ContextManager::new and then new_session within the same second
InitQuery ==
    /\ store_sessions = <<[id |-> 1, created_at |-> StartTime, updated |-> 0],
                          [id |-> 2, created_at |-> StartTime, updated |-> 0]>>
    /\ store_messages = <<>>
    /\ next_uuid = 3
    /\ clock = StartTime
    /\ store_last = NoCall
    /\ tie_order \in TieOrders
    /\ InitExecIdle
    /\ InitCtxIdle
    /\ InitTuiIdle
    /\ InitRouteIdle
    /\ InitQueryIdle
    /\ InitParseIdle
    /\ InitWatcherIdle
    /\ InitRouterIdle
    /\ InitSettingsIdle

\* The roles and the texts of the messages callers store
StoreMessageKinds ==
    { [role |-> "user", content |-> <<"a", "b">>],
      [role |-> "assistant", content |-> <<"A", "x", "B">>] }

\* store.add_message(session_id, role, content, None, None); the caller has
\* dropped the rows of an earlier query
QueryAddMessage ==
    /\ Len(store_messages) < MaxMessages
    /\ \E o \in AddOutcomes, sid \in StoreSessionArgs \ {0}, m \in StoreMessageKinds :
          LET r == MemoryStore_add_message(o, sid, m.role, m.content, None)
          IN  /\ store_messages' = r.messages
              /\ store_sessions' = r.sessions
              /\ next_uuid' = r.uuid
              /\ store_last' = [op |-> "add_message", ok |-> r.ok, id |-> sid,
                                day |-> Date(clock),
                                fault |-> IF o = "ok" THEN "none" ELSE o,
                                arg |-> [q |-> m.content, limit |-> None]]
    /\ store_ret' = <<>>
    /\ UNCHANGED <<clock, tie_order, outsideStore>>

\* The limits callers pass to get_messages: None, or Some(n)
StoreLimits == {None} \cup {Some(n) : n \in 0..MaxLimit}

\* store.get_messages(session_id, limit)
StoreGetMessages ==
    /\ \E o \in QueryOutcomes, sid \in StoreSessionArgs \ {0}, limit \in StoreLimits :
          LET r == MemoryStore_get_messages(o, sid, limit, tie_order)
          IN  /\ store_ret' = r.rows
              /\ store_last' = [op |-> "get_messages", ok |-> r.ok, id |-> sid,
                                day |-> Date(clock),
                                fault |-> IF o = "ok" THEN "none" ELSE o,
                                arg |-> [q |-> <<>>, limit |-> limit]]
    /\ UNCHANGED <<storeVars, clock, tie_order, outsideStore>>

\* The texts callers search for
StoreQueries == { <<"a", "b">>, <<"a", "_", "b">>, <<"B">> }

\* store.search_messages(query, limit); the order of rows of equal created_at
\* is the one the query plan of the call gives
StoreSearchMessages ==
    /\ \E o \in QueryOutcomes, q \in StoreQueries, limit \in 1..MaxLimit,
          ties \in TieOrders :
          LET r == MemoryStore_search_messages(o, q, limit, ties)
          IN  /\ store_ret' = r.rows
              /\ store_last' = [op |-> "search_messages", ok |-> r.ok, id |-> 0,
                                day |-> Date(clock),
                                fault |-> IF o = "ok" THEN "none" ELSE o,
                                arg |-> [q |-> q, limit |-> Some(limit)]]
    /\ UNCHANGED <<storeVars, clock, tie_order, outsideStore>>

NextQuery ==
    \/ QueryAddMessage
    \/ StoreGetMessages
    \/ StoreSearchMessages
    \/ TickSecond

SpecQuery == InitQuery /\ [][NextQuery]_vars

----------------------------------------------------------------------------
(* The notes of the store: save_note and get_notes, all within one second *)

\* MemoryStore::open on an empty database
InitNotes ==
    /\ store_sessions = <<>>
    /\ store_messages = <<>>
    /\ next_uuid = 1
    /\ clock = StartTime
    /\ store_last = NoCall
    /\ tie_order \in TieOrders
    /\ InitExecIdle
    /\ InitCtxIdle
    /\ InitTuiIdle
    /\ InitRouteIdle
    /\ InitQueryIdle
    /\ InitParseIdle
    /\ InitWatcherIdle
    /\ InitRouterIdle
    /\ InitSettingsIdle

\* The tags callers give a note: none, one, two, and tags that hold the
\* characters the JSON text of the column is built with
NoteTagLists ==
    { <<>>,
      << <<"a">> >>,
      << <<"a">>, <<"b">> >>,
      << <<"\"", ",">> >>,
      << <<"b">>, <<"\\", "]">> >> }

\* The tag filters callers pass to get_notes
NoteFilters ==
    { None,
      Some(<<>>),
      Some(<< <<"a">> >>),
      Some(<< <<"b">>, <<"c">> >>),
      Some(<< <<"a">>, <<"b">> >>),
      Some(<< <<",">> >>),
      Some(<< <<"\"", ",">> >>) }

\* store.save_note(content, tags)
NotesSaveNote ==
    /\ Len(store_notes) < MaxNotes
    /\ \E tags \in NoteTagLists, ok \in BOOLEAN :
          LET r == MemoryStore_save_note(<<"n">>, tags, ok)
          IN  /\ store_notes' = r.notes
              /\ next_uuid' = r.uuid
              /\ store_last' = [op |-> "save_note", ok |-> r.ok, id |-> r.id,
                                day |-> Date(clock),
                                fault |-> IF ok THEN "none" ELSE "insert_fails",
                                arg |-> [q |-> Some(tags), limit |-> None]]
    /\ store_ret' = <<>>
    /\ UNCHANGED <<clock, outsideNotes>>

\* store.get_notes(tags, limit)
NotesGetNotes ==
    /\ \E o \in QueryOutcomes, tags \in NoteFilters, limit \in 0..MaxLimit :
          LET r == MemoryStore_get_notes(o, tags, limit, tie_order)
          IN  /\ store_ret' = r.rows
              /\ store_last' = [op |-> "get_notes", ok |-> r.ok, id |-> 0,
                                day |-> Date(clock),
                                fault |-> IF o = "ok" THEN "none" ELSE o,
                                arg |-> [q |-> tags, limit |-> Some(limit)]]
    /\ UNCHANGED <<store_notes, next_uuid, clock, outsideNotes>>

NextNotes ==
    \/ NotesSaveNote
    \/ NotesGetNotes

SpecNotes == InitNotes /\ [][NextNotes]_vars



----------------------------------------------------------------------------
(* Properties of the turn loop (Spec) *)

\* A turn has ended and the TUI waits for a key
TurnOver == pc = "idle" /\ turn.outcome # "none"

\* The user and assistant entries of a message list: the conversation that
\* process_with_agent reads its context from
ConversationEntries(msgs) ==
    LET kept == SelectSeq(msgs, LAMBDA m : m.role \in {"User", "Assistant"})
    IN  [k \in DOMAIN kept |-> AgentMessage(kept[k].role, kept[k].content)]

\* The store holds, after the rows of `before`, exactly the user row and the
\* assistant row of the turn
BothCommitted(before) ==
    /\ Len(store_messages) = Len(before) + 2
    /\ SubSeq(store_messages, 1, Len(before)) = before
    /\ store_messages[Len(before) + 1].role = "user"
    /\ store_messages[Len(before) + 1].content = turn.user_input
    /\ store_messages[Len(before) + 2].role = "assistant"

\* C1. Turn atomicity: once a turn is over, whatever write of the commit step
\* failed, the store holds both messages of the turn or neither of them; it
\* never holds the user message without the assistant message.
C1_TurnAtomicity ==
    TurnOver => (store_messages = turn.pre_store \/ BothCommitted(turn.pre_store))

\* C2. When the first inference call fails the turn ends as an error, nothing
\* was written to the store, and the user/assistant entries of
\* TuiApp.messages are those from before the turn.
C2_InferenceFailureLeavesNoTrace ==
    (TurnOver /\ turn.failed_at = "infer") =>
        /\ turn.outcome = "Err"
        /\ store_messages = turn.pre_store
        /\ ConversationEntries(messages) = ConversationEntries(turn.pre_messages)

\* The first inference call succeeded and the loop over the tool calls is over
PastTools ==
    /\ turn.requests # <<>>
    /\ turn.failed_at # "infer"
    /\ pc \notin {"infer", "tools"}

\* The "Tool results" message that a follow-up request ends with
ToolResultsMessage(tool_results) ==
    AgentMessage("User", <<"Tool results:", "\n">> \o Join(tool_results, <<"\n">>))

\* C6. In a turn whose reply requests n > 0 tool calls, a follow-up request is
\* built and it holds exactly n tool-result entries, one per parsed call, in
\* the order parsed, the failed calls included.
C6_AllToolResultsInFollowUp ==
    (PastTools /\ turn.tool_calls # <<>>) =>
        /\ Len(turn.tool_results) = Len(turn.tool_calls)
        /\ \A k \in DOMAIN turn.tool_results :
              turn.tool_results[k][2] = turn.tool_calls[k].name
        /\ turn.all_messages[Len(turn.all_messages)]
              = ToolResultsMessage(turn.tool_results)

\* C7. Every tool call parsed from the reply is passed to execute exactly
\* once, in the order parsed: while the loop runs the calls executed are the
\* first i parsed calls, and once it is over they are all the parsed calls,
\* whatever each call returned.
C7_EveryToolExecutedOnce ==
    /\ pc = "tools" =>
          /\ turn.i <= Len(turn.tool_calls)
          /\ turn.executed = SubSeq(turn.tool_calls, 1, turn.i)
    /\ PastTools =>
          /\ turn.executed = turn.tool_calls
          /\ Len(turn.results) = Len(turn.tool_calls)

\* C7, its case: three calls were parsed, the second returned an error, and
\* the third was executed after it.
C7_Witness ==
    /\ PastTools
    /\ Len(turn.tool_calls) = 3
    /\ Len(turn.results) = 3
    /\ turn.results[2].tag = "Err"
    /\ turn.executed[3] = turn.tool_calls[3]

\* C10. When the follow-up inference call fails and the turn commits, the
\* committed assistant message is the first reply followed by a rendering of
\* the tool results: it starts with the reply and holds every result gathered.
C10_FollowUpFailureKeepsToolOutput ==
    (TurnOver /\ turn.outcome = "Ok" /\ turn.follow_up = "Err") =>
        LET row == store_messages[Len(store_messages)]
        IN  /\ row.role = "assistant"
            /\ SubSeq(row.content, 1, Len(turn.response)) = turn.response
            /\ \A k \in DOMAIN turn.tool_results :
                  Contains(row.content, turn.tool_results[k])

\* C11. Once the loop over the tool calls is over, a follow-up inference call
\* was issued (or is about to be) if and only if at least one parsed tool call
\* was passed to execute in the turn; and a committed turn whose reply held no
\* tool call made exactly one inference call and committed the first reply.
C11_FollowUpIffToolExecuted ==
    /\ PastTools =>
          ((pc = "followup" \/ turn.follow_up # "none") <=> (turn.executed # <<>>))
    /\ (TurnOver /\ turn.outcome = "Ok" /\ turn.tool_calls = <<>>) =>
          /\ Len(turn.requests) = 1
          /\ store_messages[Len(store_messages)].role = "assistant"
          /\ store_messages[Len(store_messages)].content = turn.response

\* C12. The step that completes a turn successfully leaves in the store the
\* rows from before the turn followed by exactly two more: a user row holding
\* the user's input, then an assistant row holding the response returned (the
\* one shown in the assistant entry), both under conversation_id. No step
\* other than the two writes of the commit changes the table of messages.
C12_SuccessfulTurnCommitsTwo ==
    /\ [][(pc = "save_assistant" /\ turn'.outcome = "Ok") =>
            LET n == Len(turn.pre_store)
                shown == SelectSeq(messages', LAMBDA m : m.id = turn.assistant_msg_id)
            IN  /\ Len(store_messages') = n + 2
                /\ SubSeq(store_messages', 1, n) = turn.pre_store
                /\ store_messages'[n + 1].role = "user"
                /\ store_messages'[n + 1].content = turn.user_input
                /\ store_messages'[n + 1].session_id = conversation_id
                /\ store_messages'[n + 2].role = "assistant"
                /\ store_messages'[n + 2].content = turn.final_response
                /\ store_messages'[n + 2].session_id = conversation_id
                /\ \A k \in DOMAIN shown : shown[k].content = turn.final_response]_vars
    /\ [][store_messages' # store_messages => pc \in {"save_user", "save_assistant"}]_vars

\* C12, its case: a turn that ran a tool and asked a follow-up has completed
\* successfully and its two rows are in the store.
C12_Witness ==
    /\ TurnOver
    /\ turn.outcome = "Ok"
    /\ turn.follow_up = "Ok"
    /\ Len(store_messages) = Len(turn.pre_store) + 2
    /\ store_messages[Len(store_messages)].content = turn.final_response

\* C14. A turn during whose first inference call the user pressed Ctrl+C
\* ends with a cancelled outcome, with no message written to the store and
\* with the user/assistant entries of TuiApp.messages as before the turn.
C14_CancelDuringInference ==
    (TurnOver /\ turn.cancel_at = "infer") =>
        /\ turn.outcome = "Cancelled"
        /\ store_messages = turn.pre_store
        /\ ConversationEntries(messages) = ConversationEntries(turn.pre_messages)

\* A step of the turn in progress
TurnStep == CreateBackend \/ Infer \/ ExecuteTool \/ FollowUp \/ SaveUser \/ SaveAssistant

----------------------------------------------------------------------------
(* Properties of the context manager (SpecCtx) *)

\* How many entries of the sequence s satisfy Test
Count(s, Test(_)) == Cardinality({k \in DOMAIN s : Test(s[k])})

\* Every message of the hot window has its own row in the store, under the
\* current session
HotIsPersisted ==
    \A k \in DOMAIN hot_messages :
        LET m == hot_messages[k]
        IN  Count(hot_messages, LAMBDA x : x = m)
            <= Count(store_messages,
                     LAMBDA r : /\ r.session_id = session_id
                                /\ r.role = RoleName(m.role)
                                /\ r.content = m.content)

\* C3. When the durable write inside add_message fails, add_message returns
\* an error and leaves the hot window as it was; the hot window never holds a
\* message that was not persisted.
C3_FailedWriteLeavesHotWindow ==
    /\ []HotIsPersisted
    /\ [][(CtxAddMessage /\ ctx_ret' = "Err") => hot_messages' = hot_messages]_vars

\* C4. The hot window holds at most 2 * hot_turns messages in every state,
\* whatever each add_message, new_session and clear call returned.
C4_HotWindowBound == Len(hot_messages) <= 2 * hot_turns

\* The last n entries of s
LastN(s, n) == SubSeq(s, Len(s) - n + 1, Len(s))

\* C5. After n add_message calls that all returned Ok since the last
\* successful new_session or clear, with no failed call among them, the hot
\* window is the last min(n, 2 * hot_turns) messages added, in insertion order.
C5_HotWindowIsLastAdded ==
    ~ctx_failed =>
        LET n == Len(ctx_added)
            max_hot == 2 * hot_turns
        IN  hot_messages = LastN(ctx_added, IF n < max_hot THEN n ELSE max_hot)

\* C5, its case: more messages were added than the window holds, the oldest
\* was evicted, and the window is non-empty.
C5_Witness ==
    /\ ~ctx_failed
    /\ hot_turns > 0
    /\ Len(ctx_added) > 2 * hot_turns
    /\ ctx_added[1] # ctx_added[Len(ctx_added)]
    /\ Len(hot_messages) = 2 * hot_turns

----------------------------------------------------------------------------
(* Properties of the tool executor (SpecExec) *)

\* The arguments execute takes with `?`: a call without one of them (or with
\* one of another type) does not reach the tool. list_dir and screenshot
\* supply a default for their path.
RequiredArgs(name) ==
    CASE name = "read_file" -> {[key |-> <<"path">>, kind |-> "str"]}
      [] name = "write_file" -> {[key |-> <<"path">>, kind |-> "str"],
                                 [key |-> <<"content">>, kind |-> "str"]}
      [] name \in {"shell", "run_command"} -> {[key |-> <<"command">>, kind |-> "str"]}
      [] name = "copy_to_clipboard" -> {[key |-> <<"text">>, kind |-> "str"]}
      [] name = "kill_process" -> {[key |-> <<"pid">>, kind |-> "int"]}
      [] OTHER -> {}

\* The required arguments that `request` lacks
MissingArgs(request) ==
    {a \in RequiredArgs(request.name) :
        ~(a.key \in DOMAIN request.args /\ request.args[a.key].kind = a.kind)}

\* C8. execute on a known tool with a required argument missing (or of the
\* wrong type) returns Ok with a ToolResult of success = false whose error
\* text names a missing argument; it does not return Err.
C8_MissingArgumentIsAFailedResult ==
    (exec_result # NoResult /\ MissingArgs(exec_request) # {}) =>
        /\ exec_result.tag = "Ok"
        /\ ~exec_result.success
        /\ exec_result.error.some
        /\ \E a \in MissingArgs(exec_request) : Contains(exec_result.error.v, a.key)

\* C9. execute on a name that is not registered returns Ok with a ToolResult
\* of success = false, an empty output and an error text that holds the
\* name, and performs no OS-level operation.
C9_UnknownToolIsAFailedResult ==
    (exec_result # NoResult /\ exec_request.name \notin RegisteredTools) =>
        /\ exec_result.tag = "Ok"
        /\ ~exec_result.success
        /\ exec_result.output = <<>>
        /\ exec_result.error.some
        /\ Contains(exec_result.error.v, <<exec_request.name>>)
        /\ effects = <<>>

\* C9, its case: execute was called on http_get, which is not registered,
\* with arguments
C9_Witness ==
    /\ exec_result # NoResult
    /\ exec_request.name = "http_get"
    /\ DOMAIN exec_request.args # {}
    /\ exec_result.tag = "Ok"


----------------------------------------------------------------------------
(* Properties of routing (SpecRoute) *)

\* The five handlers, in their fixed order
Handlers == <<CODER, FILER, SHELL, MEMORY, APP>>
Registered == {Handlers[k] : k \in DOMAIN Handlers}

\* The handler whose can_handle score on `text` is highest, the first of them
\* in the order of Handlers when several score the same
BestByScore(text) ==
    LET score(k) == can_handle(Handlers[k], text)
        best == CHOOSE k \in DOMAIN Handlers :
                    /\ \A j \in DOMAIN Handlers : score(j) <= score(k)
                    /\ \A j \in 1..(k - 1) : score(j) < score(k)
    IN  Handlers[best]

\* The lowercased text contains none of route_query's keywords
NoKeyword(text) ==
    ~ContainsAny(to_lowercase(text),
                 RouteCoderWords \cup RouteFilerWords \cup RouteShellWords
                 \cup RouteMemoryWords \cup RouteAppWords)

\* C15. With no forced agent, the agent process_query selects for a request
\* text is the one whose can_handle score on the text is highest among coder,
\* filer, shell, memory and app, the first in that order on a tie.
C15_HighestScoreSelected ==
    (route_ret # NoRoute /\ ~forced_agent.some) =>
        route_ret.selected = BestByScore(query)

\* C16. With a forced agent that is one of the five handlers, process_query
\* selects exactly that name, whatever the request text, and does not call
\* route_query; the name it returns on success is that name.
C16_ForcedAgentSelected ==
    (route_ret # NoRoute /\ forced_agent.some /\ forced_agent.v \in Registered) =>
        /\ route_ret.selected = forced_agent.v
        /\ ~route_ret.routed
        /\ route_ret.tag = "Ok" => route_ret.agent = forced_agent.v

\* C16, its case: filer was forced on a text that route_query gives to coder,
\* and process_query returned Ok
C16_Witness ==
    /\ route_ret.tag = "Ok"
    /\ forced_agent = Some(FILER)
    /\ route_query(query) = CODER
    /\ route_ret.agent = FILER

\* C17. For every request text and every forced name, registered or not,
\* process_query selects one of the five handlers, and a text that holds none
\* of the keywords is given to shell when no agent is forced.
C17_AlwaysARegisteredHandler ==
    route_ret # NoRoute =>
        /\ route_ret.selected \in Registered
        /\ route_ret.tag = "Ok" => route_ret.agent \in Registered
        /\ (~forced_agent.some /\ NoKeyword(query)) => route_ret.selected = SHELL

----------------------------------------------------------------------------
(* Properties of the memory store (SpecStore) *)

\* The rows of `sessions` created on the day `day`
SessionsOfDay(sessions, day) ==
    {k \in DOMAIN sessions : Date(sessions[k].created_at) = day}

SessionIds(sessions) == {sessions[k].id : k \in DOMAIN sessions}

\* C18. A get_or_create_session call that follows another one made on the
\* same day, no other store call in between, returns the id the first one
\* returned and creates no row; and a call made on a day of which the table
\* holds no session creates one row and returns its new id.
C18_SameDaySameSession ==
    /\ [][(/\ StoreGetOrCreateSession
            /\ store_last.op = "get_or_create_session"
            /\ store_last.ok
            /\ store_last.day = Date(clock)
            /\ store_last'.ok) =>
                /\ store_last'.id = store_last.id
                /\ store_sessions' = store_sessions]_vars
    /\ [][(/\ StoreGetOrCreateSession
            /\ SessionsOfDay(store_sessions, Date(clock)) = {}
            /\ store_last'.ok) =>
                /\ store_last'.id \notin SessionIds(store_sessions)
                /\ Len(store_sessions') = Len(store_sessions) + 1
                /\ store_sessions'[Len(store_sessions')].id = store_last'.id]_vars

\* C19. When the table holds sessions created on the current day,
\* get_or_create_session returns the one of them that was created last, also
\* when several of them carry the same created_at.
C19_ReturnsLastCreated ==
    [][(/\ StoreGetOrCreateSession
        /\ SessionsOfDay(store_sessions, Date(clock)) # {}
        /\ store_last'.ok) =>
            LET of_day == SessionsOfDay(store_sessions, Date(clock))
                last == CHOOSE k \in of_day : \A j \in of_day : j <= k
            IN  store_last'.id = store_sessions[last].id]_vars

\* C20. add_message is atomic: when it returns Ok the message row was
\* inserted and the session's updated_at touched, and when it returns an
\* error neither table has changed.
C20_AddMessageAtomic ==
    [][StoreAddMessage =>
          \/ /\ store_last'.ok
             /\ Len(store_messages') = Len(store_messages) + 1
             /\ store_sessions' = TouchSession(store_sessions, store_last'.id)
          \/ /\ ~store_last'.ok
             /\ store_messages' = store_messages
             /\ store_sessions' = store_sessions]_vars

\* C21. A get_or_create_session call whose lookup fails with a storage error
\* returns the error and creates no session row; the call creates a row only
\* when the table holds no session of the current day.
C21_LookupErrorIsReturned ==
    /\ [][(StoreGetOrCreateSession /\ store_last'.fault = "query_fails") =>
            /\ ~store_last'.ok
            /\ store_sessions' = store_sessions]_vars
    /\ [][(StoreGetOrCreateSession /\ store_sessions' # store_sessions) =>
            SessionsOfDay(store_sessions, Date(clock)) = {}]_vars

----------------------------------------------------------------------------
(* Properties of the queries of the memory store (SpecQuery) *)

\* The rows of session sid, as indices of the table in insertion order
RowsOfSession(sid) ==
    SelectSeq([k \in DOMAIN store_messages |-> k],
              LAMBDA k : store_messages[k].session_id = sid)

\* The last n elements of s (all of s when it has fewer), in reverse order
LastReversed(s, n) ==
    LET m == IF Len(s) < n THEN Len(s) ELSE n
    IN  [k \in 1..m |-> s[Len(s) - k + 1]]

\* C22. get_messages(session_id, limit) that succeeds returns the last
\* min(limit, n) messages inserted for the session, newest insertion first:
\* at most limit rows, all of the session, in reverse insertion order, also
\* when messages share a created_at.
C22_GetMessagesNewestFirst ==
    (store_last.op = "get_messages" /\ store_last.ok) =>
        LET limit == IF store_last.arg.limit.some THEN store_last.arg.limit.v
                     ELSE GetMessagesDefaultLimit
            expected == LastReversed(RowsOfSession(store_last.id), limit)
        IN  store_ret = [k \in DOMAIN expected |-> StoredMessage(store_messages[expected[k]])]

\* C23. After add_message(session, role, content) returns Ok, a get_messages
\* of that session with a limit of at least 1 that succeeds returns a row with
\* that content, role and session id: the row the call inserted.
C23_AddThenGetRoundTrip ==
    [][(/\ store_last.op = "add_message"
        /\ store_last.ok
        /\ StoreGetMessages
        /\ store_last'.ok
        /\ store_last'.id = store_last.id
        /\ (store_last'.arg.limit.some => store_last'.arg.limit.v >= 1)) =>
            LET added == store_messages[Len(store_messages)]
            IN  /\ added.session_id = store_last.id
                /\ added.content = store_last.arg.q
                /\ \E k \in DOMAIN store_ret' :
                      store_ret'[k] = StoredMessage(added)]_vars

\* The stored created_at of the row a returned message was built from
StoredCreatedAt(m) ==
    store_messages[CHOOSE k \in DOMAIN store_messages : store_messages[k].id = m.id].created_at

\* C24. search_messages(query, limit) that succeeds returns at most limit
\* messages, none of them created later than the one before it, and the
\* content of each contains query as a literal substring.
C24_SearchLiteralSubstring ==
    (store_last.op = "search_messages" /\ store_last.ok) =>
        /\ Len(store_ret) <= store_last.arg.limit.v
        /\ \A k \in 1..(Len(store_ret) - 1) :
              ~Later(StoredCreatedAt(store_ret[k + 1]), StoredCreatedAt(store_ret[k]))
        /\ \A k \in DOMAIN store_ret :
              Contains(store_ret[k].content, store_last.arg.q)

----------------------------------------------------------------------------
(* Properties of the notes (SpecNotes) *)

\* The ids of the rows of notes that carry at least one tag of `filter`
IdsOfNotesWithAnyTag(filter) ==
    {store_notes[k].id : k \in
        {j \in DOMAIN store_notes :
            \E t \in DOMAIN filter :
                VecContains(TagsFromJson(store_notes[j].tags), filter[t])}}

\* C25. A saved note carries, read back from its row, the tags it was saved
\* with; and with limit at least the number of stored notes, get_notes with
\* Some(tags) returns exactly the notes that carry at least one of those tags
\* (each once), and with None all notes.
C25_GetNotesAnyTag ==
    /\ [][(NotesSaveNote /\ store_last'.ok) =>
            LET row == store_notes'[Len(store_notes')]
            IN  /\ Len(store_notes') = Len(store_notes) + 1
                /\ row.id = store_last'.id
                /\ TagsFromJson(row.tags) = store_last'.arg.q.v]_vars
    /\ []((/\ store_last.op = "get_notes"
           /\ store_last.ok
           /\ store_last.arg.limit.v >= Len(store_notes)) =>
            LET filter == store_last.arg.q
                ids == {store_ret[k].id : k \in DOMAIN store_ret}
            IN  /\ Cardinality(ids) = Len(store_ret)
                /\ \A k \in DOMAIN store_ret :
                      \E j \in DOMAIN store_notes : StoredNote(store_notes[j]) = store_ret[k]
                /\ IF filter.some
                   THEN ids = IdsOfNotesWithAnyTag(filter.v)
                   ELSE ids = {store_notes[k].id : k \in DOMAIN store_notes})

\* Two notes of different tags are stored and a filter naming a tag of one
\* and a tag of neither returns that one only
C25_Witness ==
    /\ store_last.op = "get_notes"
    /\ store_last.ok
    /\ store_last.arg.q = Some(<< <<"b">>, <<"c">> >>)
    /\ store_last.arg.limit.v >= Len(store_notes)
    /\ Len(store_notes) = 2
    /\ Len(store_ret) = 1
    /\ store_ret[1].tags = << <<"b">>, <<"\\", "]">> >>

----------------------------------------------------------------------------
(* Properties of clear, new_session and retrieval (SpecCtx) *)

\* C26. A clear() that returns Ok leaves no message and no session row of the
\* previous session id in the store, leaves the messages and the rows of every
\* other session as they were, empties the hot window, and makes the current
\* session a newly created one, different from the previous one.
C26_ClearPurgesAndRotates ==
    [][(CtxClear /\ ctx_ret' = "Ok") =>
        LET prev == session_id
        IN  /\ \A k \in DOMAIN store_messages' : store_messages'[k].session_id # prev
            /\ \A k \in DOMAIN store_sessions' : store_sessions'[k].id # prev
            /\ store_messages' = SelectSeq(store_messages, LAMBDA m : m.session_id # prev)
            /\ SelectSeq(store_sessions', LAMBDA r : r.id # session_id')
                  = SelectSeq(store_sessions, LAMBDA r : r.id # prev)
            /\ hot_messages' = <<>>
            /\ session_id' # prev
            /\ session_id' \notin SessionIds(store_sessions)
            /\ \A k \in DOMAIN store_messages : store_messages[k].id # session_id'
            /\ session_id' \in SessionIds(store_sessions')]_vars

\* The second session, with a message, was cleared; the message of the first
\* session is still there
C26_Witness ==
    /\ ctx_ret = "Ok"
    /\ session_id = 5
    /\ hot_messages = <<>>
    /\ SessionIds(store_sessions) = {1, 5}
    /\ Len(store_messages) = 1
    /\ store_messages[1].session_id = 1
    /\ store_messages[1].id = 2

\* C27. add_message (its hot-window eviction included) and new_session remove
\* nothing from the store, whether they return Ok or Err: every message row
\* persisted before the call is there after it, unchanged and in place, and
\* every session row is there after it, in place, with its id and created_at
\* (add_message touches the updated_at of the current session's row).
C27_OnlyClearRemoves ==
    [][(CtxAddMessage \/ CtxNewSession) =>
        /\ Len(store_messages') >= Len(store_messages)
        /\ SubSeq(store_messages', 1, Len(store_messages)) = store_messages
        /\ Len(store_sessions') >= Len(store_sessions)
        /\ \A k \in DOMAIN store_sessions :
              /\ store_sessions'[k].id = store_sessions[k].id
              /\ store_sessions'[k].created_at = store_sessions[k].created_at]_vars

\* Three messages were persisted for the first session, the hot window of one
\* turn evicted the oldest, and new_session then emptied the hot window: the
\* three rows and the row of the first session are still in the store
C27_Witness ==
    /\ ctx_ret = "Ok"
    /\ hot_turns = 1
    /\ hot_messages = <<>>
    /\ Len(store_sessions) = 2
    /\ store_sessions[1].id = 1
    /\ session_id = store_sessions[2].id
    /\ Len(store_messages) = 3
    /\ \A k \in DOMAIN store_messages : store_messages[k].session_id = 1

----------------------------------------------------------------------------
(* Properties of retrieval (SpecRetrieval) *)

\* The store holds a message the search for q matches
SearchFinds(q) ==
    \E k \in DOMAIN store_messages : Like(store_messages[k].content, SearchPattern(q))

\* C28. Every get_context_with_retrieval(query) call returns a context: the
\* hot window in order, preceded by exactly one system-role entry when
\* warm_chunks > 0 and the store's search returns at least one message, and
\* exactly the hot window otherwise; and the call changes neither the hot
\* window nor the store.
C28_RetrievalPrependsOneEntry ==
    /\ [](ctx_context.tag # "none" =>
            /\ ctx_context.tag = "Ok"
            /\ IF /\ warm_chunks > 0
                  /\ ctx_context.fault = "none"
                  /\ SearchFinds(ctx_context.q)
               THEN /\ Len(ctx_context.context) = Len(hot_messages) + 1
                    /\ ctx_context.context[1].role = "System"
                    /\ Tail(ctx_context.context) = hot_messages
               ELSE ctx_context.context = hot_messages)
    /\ [][CtxGetContextWithRetrieval =>
            UNCHANGED <<hot_messages, session_id, storeVars>>]_vars

\* C29. A get_context_with_retrieval call during which the store's search
\* fails returns Ok with exactly the hot window.
C29_SearchFailureIsSkipped ==
    (ctx_context.tag # "none" /\ ctx_context.fault = "query_fails") =>
        /\ ctx_context.tag = "Ok"
        /\ ctx_context.context = hot_messages

----------------------------------------------------------------------------
(* Properties of parse_tool_calls (SpecParse) *)

\* The arguments of a directive as the items name them: a key=value item
\* under its key, the k-th unlabelled value (from 0) under arg<k>; items from
\* position p on, k unlabelled values seen before
RECURSIVE ArgsInOrder(_, _, _, _)
ArgsInOrder(items, p, k, args) ==
    IF p > Len(items) THEN args
    ELSE LET item == items[p]
             eq == IndexFrom(item, "=", 1)
         IN  IF item = <<>> THEN ArgsInOrder(items, p + 1, k, args)
             ELSE IF eq # 0
             THEN ArgsInOrder(items, p + 1, k,
                     MapInsert(args, SubSeq(item, 1, eq - 1),
                               StrValue(SubSeq(item, eq + 1, Len(item)))))
             ELSE ArgsInOrder(items, p + 1, k + 1,
                     MapInsert(args, <<"arg", ToString(k)>>, StrValue(item)))

\* C30. parse_tool_calls on [TOOL: name(item, ...)] returns one request whose
\* arguments hold each key=value item under its key and the k-th unlabelled
\* value, counting from 0, under arg<k>, also when labelled and unlabelled
\* items are mixed.
C30_PositionalKeysConsecutive ==
    parse_ret # <<>> =>
        parse_ret = <<ToolRequest(parse_input.name,
                                  ArgsInOrder(parse_input.items, 1, 0, EmptyMap))>>

----------------------------------------------------------------------------
(* Properties of parse_tool_calls on whole replies (SpecReply) *)

\* The tool calls the inline directives of a sequence of parts name, in order
RECURSIVE InlineDirectives(_)
InlineDirectives(parts) ==
    IF parts = <<>> THEN <<>>
    ELSE (CASE Head(parts) = "shell_ls" ->
                  <<ToolRequest("shell", MapInsert(EmptyMap, <<"arg", "0">>,
                                                   StrValue(<<"ls">>)))>>
            [] Head(parts) = "read_clipboard" ->
                  <<ToolRequest("read_clipboard", EmptyMap)>>
            [] OTHER -> <<>>)
         \o InlineDirectives(Tail(parts))

\* C31. For a reply that as a whole is a JSON object with a string tool field
\* parse_tool_calls returns exactly one tool call, the one the object names,
\* and no call for an inline directive of the reply text; for any other reply
\* it returns one call per inline directive, left to right, and the empty
\* list when there is none.
C31_JsonFormWins ==
    model_reply.parsed =>
        IF model_reply.form \in {"json", "json_args"}
        THEN /\ Len(parse_ret) = 1
             /\ parse_ret[1].name = model_reply.name
        ELSE parse_ret = InlineDirectives(model_reply.parts)

----------------------------------------------------------------------------
(* Settings::get and Settings::set (src/config/settings.rs) *)

\* The settings modelled, each by its path: a String, a bool and a usize of
\* two sections, and a String of a section nested in a section
SettingsPaths ==
    { <<"general", "default_provider">>, <<"general", "telemetry">>,
      <<"local", "threads">>, <<"local", "agents", "router">> }
SettingType(p) ==
    CASE p = <<"general", "default_provider">> -> "String"
      [] p = <<"general", "telemetry">> -> "bool"
      [] p = <<"local", "threads">> -> "usize"
      [] p = <<"local", "agents", "router">> -> "String"

\* Settings::default()
default_threads == 8
Settings_default ==
    [p \in SettingsPaths |->
        CASE p = <<"general", "default_provider">> -> <<"l", "o", "c", "a", "l">>
          [] p = <<"general", "telemetry">> -> FALSE
          [] p = <<"local", "threads">> -> default_threads
          [] p = <<"local", "agents", "router">> -> <<"q", "w", "e", "n">>]

DigitChars == <<"0", "1", "2", "3", "4", "5", "6", "7", "8", "9">>
IsDigit(c) == \E d \in 1..10 : DigitChars[d] = c
DigitValue(c) == (CHOOSE d \in 1..10 : DigitChars[d] = c) - 1

\* str::parse::<u64> / <i64>: an optional sign, then one or more digits
IsDigits(s) == Len(s) > 0 /\ \A i \in 1..Len(s) : IsDigit(s[i])
RECURSIVE DigitsValue(_)
DigitsValue(s) ==
    IF s = <<>> THEN 0
    ELSE 10 * DigitsValue(SubSeq(s, 1, Len(s) - 1)) + DigitValue(s[Len(s)])
Unsigned(s) == IF Len(s) > 0 /\ s[1] \in {"+", "-"} THEN Tail(s) ELSE s
ParsesAsI64(s) == IsDigits(Unsigned(s))
ParseI64(s) ==
    IF s[1] = "-" THEN 0 - DigitsValue(Unsigned(s)) ELSE DigitsValue(Unsigned(s))

\* str::parse::<f64> on the texts of SettingChars: an optional sign, digits
\* with at most one point, and a digit somewhere
ParsesAsF64(s) ==
    LET body == Unsigned(s) IN
        /\ \A i \in 1..Len(body) : IsDigit(body[i]) \/ body[i] = "."
        /\ Cardinality({i \in 1..Len(body) : body[i] = "."}) <= 1
        /\ \E i \in 1..Len(body) : IsDigit(body[i])

\* Number::to_string of an unsigned integer
RECURSIVE U64ToString(_)
U64ToString(n) ==
    IF n < 10 THEN <<DigitChars[n + 1]>>
    ELSE U64ToString(n \div 10) \o <<DigitChars[(n % 10) + 1]>>

\* bool::to_string
BoolToString(b) == IF b THEN <<"t", "r", "u", "e">> ELSE <<"f", "a", "l", "s", "e">>

\* serde_json::to_value(self): the leaves of the JSON tree, by path
JsonOfSetting(p, x) ==
    CASE SettingType(p) = "String" -> [kind |-> "String", v |-> x]
      [] SettingType(p) = "bool" -> [kind |-> "Bool", v |-> x]
      [] SettingType(p) = "usize" -> [kind |-> "Number", v |-> x]
to_value(self) == [p \in SettingsPaths |-> JsonOfSetting(p, self[p])]

HasPrefix(p, pre) == Len(pre) <= Len(p) /\ SubSeq(p, 1, Len(pre)) = pre
\* the node at a path is an object / is any node of the tree
IsObject(json, pre) == \E p \in DOMAIN json : Len(p) > Len(pre) /\ HasPrefix(p, pre)
NodeExists(json, pre) == pre \in DOMAIN json \/ IsObject(json, pre)

\* Settings::get(&self, path)
Settings_get(self, path) ==
    LET json == to_value(self) IN
        IF ~NodeExists(json, path) THEN None
        ELSE IF path \notin DOMAIN json THEN Some(<<"{", "}">>)
        ELSE CASE json[path].kind = "String" -> Some(json[path].v)
               [] json[path].kind = "Number" -> Some(U64ToString(json[path].v))
               [] json[path].kind = "Bool" -> Some(BoolToString(json[path].v))

\* The value Settings::set stores for a text ("try to preserve the type")
NewValue(value) ==
    IF ParsesAsI64(value) THEN [kind |-> "Number", v |-> ParseI64(value)]
    ELSE IF ParsesAsF64(value) THEN [kind |-> "Float", v |-> value]
    ELSE IF value = <<"t", "r", "u", "e">> THEN [kind |-> "Bool", v |-> TRUE]
    ELSE IF value = <<"f", "a", "l", "s", "e">> THEN [kind |-> "Bool", v |-> FALSE]
    ELSE [kind |-> "String", v |-> value]

\* Deserialize of one field from the node the tree has at its path
Deserializes(p, node) ==
    CASE SettingType(p) = "String" -> node.kind = "String"
      [] SettingType(p) = "bool" -> node.kind = "Bool"
      [] SettingType(p) = "usize" -> node.kind = "Number" /\ node.v >= 0

\* serde_json::from_value(json): Err when a field's node has another type or
\* a section's node is no object; a missing field takes its default
FromValueOk(json) ==
    \A p \in SettingsPaths :
        IF p \in DOMAIN json THEN Deserializes(p, json[p])
        ELSE ~ \E q \in DOMAIN json : Len(q) < Len(p) /\ HasPrefix(p, q)
from_value(json) ==
    [p \in SettingsPaths |-> IF p \in DOMAIN json THEN json[p].v ELSE Settings_default[p]]

\* Settings::set(&mut self, path, value): the result and the new self
Settings_set(self, path, value) ==
    LET json == to_value(self)
        parent == SubSeq(path, 1, Len(path) - 1)
        reached == \A i \in 1..(Len(path) - 1) : NodeExists(json, SubSeq(path, 1, i))
        kept == {q \in DOMAIN json : ~HasPrefix(q, path)}
        inserted == [q \in kept \cup {path} |->
                        IF q = path THEN NewValue(value) ELSE json[q]]
    IN  IF ~reached \/ (parent /= <<>> /\ ~IsObject(json, parent))
        THEN [ok |-> FALSE, error |-> "Invalid config path", self |-> self]
        ELSE IF ~FromValueOk(inserted)
        THEN [ok |-> FALSE, error |-> "Deserialization error", self |-> self]
        ELSE [ok |-> TRUE, error |-> "", self |-> from_value(inserted)]

\* The texts given to set, and the paths given to set and get
SettingChars == {"1", ".", "x"}
RECURSIVE SettingTexts(_)
SettingTexts(n) ==
    IF n = 0 THEN {<<>>}
    ELSE SettingTexts(n - 1) \cup
         {s \o <<c>> : s \in SettingTexts(n - 1), c \in SettingChars}
SettingValues ==
    SettingTexts(MaxValueLen) \cup
    {BoolToString(TRUE), BoolToString(FALSE), <<"1", ".", "5">>}
SettingInputPaths ==
    SettingsPaths \cup { <<"local">>, <<"local", "bogus">>, <<"bogus", "threads">>,
                         <<"local", "threads", "x">> }

InitSettings ==
    /\ settings = Settings_default
    /\ settings_last = NoSettingsCall
    /\ store_sessions = <<>>
    /\ store_messages = <<>>
    /\ next_uuid = 1
    /\ InitExecIdle
    /\ InitCtxIdle
    /\ InitTuiIdle
    /\ InitTimeIdle
    /\ InitRouteIdle
    /\ InitQueryIdle
    /\ InitParseIdle
    /\ InitWatcherIdle
    /\ InitRouterIdle

outsideSettings == <<watcherVars, routerVars, storeVars, execVars, ctxVars, tuiVars, timeVars, routeVars,
                     queryVars, parseVars>>

\* settings.set(path, value)
SettingsSet ==
    \E path \in SettingInputPaths, value \in SettingValues :
        LET r == Settings_set(settings, path, value) IN
            /\ settings' = r.self
            /\ settings_last' = [op |-> "set", path |-> path, value |-> value,
                                 ok |-> r.ok, before |-> settings, ret |-> None]
            /\ UNCHANGED outsideSettings

\* settings.get(path)
SettingsGet ==
    \E path \in SettingInputPaths :
        /\ settings_last' = [op |-> "get", path |-> path, value |-> <<>>,
                             ok |-> TRUE, before |-> settings,
                             ret |-> Settings_get(settings, path)]
        /\ UNCHANGED <<settings, outsideSettings>>

NextSettings == SettingsSet \/ SettingsGet
SpecSettings == InitSettings /\ [][NextSettings]_vars

\* A text is a value of the type the setting holds
ValueOfType(p, value) ==
    CASE SettingType(p) = "String" -> TRUE
      [] SettingType(p) = "bool" -> value \in {BoolToString(TRUE), BoolToString(FALSE)}
      [] SettingType(p) = "usize" -> IsDigits(value) /\ U64ToString(DigitsValue(value)) = value

\* C32. After set(path, v) on an existing setting with a value v of the type
\* the setting holds, get(path) returns v and every other setting is as it
\* was before the set.
C32_SetThenGet ==
    (/\ settings_last.op = "set"
     /\ settings_last.path \in SettingsPaths
     /\ ValueOfType(settings_last.path, settings_last.value))
    => /\ Settings_get(settings, settings_last.path) = Some(settings_last.value)
       /\ \A p \in SettingsPaths \ {settings_last.path} :
              settings[p] = settings_last.before[p]

----------------------------------------------------------------------------
\* The messages of the first request between the system prompt and the final
\* message
PriorPart(req) == SubSeq(req, 2, Len(req) - 1)

\* C33. The first inference request of a turn is the system prompt, then the
\* conversation as it was before the turn, then the new user turn as its
\* final message: the new user input occurs once, and the empty assistant
\* placeholder of the turn in progress is not in the request.
C33_FirstRequestShape ==
    turn.requests # <<>> =>
        LET req == turn.requests[1] IN
            /\ Len(req) >= 2
            /\ req[1] = AgentMessage("System", SystemPrompt)
            /\ req[Len(req)] = AgentMessage("User", turn.context)
            /\ PriorPart(req) = BuildContext(turn.pre_messages)
            /\ ~ \E k \in 1..Len(req) : req[k] = AgentMessage("Assistant", <<>>)
            /\ Cardinality({k \in 1..Len(req) :
                              /\ req[k].role = "User"
                              /\ req[k].content \in {turn.user_input, turn.context}}) = 1

----------------------------------------------------------------------------
(* A turn after a long conversation: the TuiApp with earlier turns shown *)

\* The messages n finished turns left in self.messages: a question and its
\* answer each, under uuids drawn earlier
PriorConversation(n) ==
    [k \in 1..(2 * n) |->
        ChatMessage(0 - k, IF k % 2 = 1 THEN "User" ELSE "Assistant",
                    <<IF k % 2 = 1 THEN "question" ELSE "answer",
                      ToString((k + 1) \div 2)>>, FALSE)]

\* The conversations the turn starts from: as long as the context takes, and
\* one turn longer
PriorTurns == {MaxPriorTurns - 1, MaxPriorTurns}

InitLong ==
    /\ store_sessions = <<>>
    /\ store_messages = <<>>
    /\ conversation_id = 1
    /\ \E n \in PriorTurns :
          messages = <<ChatMessage(2, "System", Welcome, FALSE)>> \o PriorConversation(n)
    /\ next_uuid = 3
    /\ input = <<>>
    /\ status = <<"Ready">>
    /\ processing = FALSE
    /\ history = <<>>
    /\ running = TRUE
    /\ screen_watching = FALSE
    /\ pc = "idle"
    /\ turn = NoTurn
    /\ InitExecIdle
    /\ InitCtxIdle
    /\ InitTimeIdle
    /\ InitRouteIdle
    /\ InitQueryIdle
    /\ InitParseIdle
    /\ InitWatcherIdle
    /\ InitRouterIdle
    /\ InitSettingsIdle

SpecLong == InitLong /\ [][Next]_vars

\* The user and assistant messages of a conversation, and the last n of a list
UserAssistant(msgs) ==
    LET kept == SelectSeq(msgs, LAMBDA m : m.role \in {"User", "Assistant"})
    IN  [k \in DOMAIN kept |-> AgentMessage(kept[k].role, kept[k].content)]
LastOf(s, n) == IF Len(s) <= n THEN s ELSE SubSeq(s, Len(s) - n + 1, Len(s))

\* C34. The prior-conversation part of an inference request is the last 10
\* user/assistant messages of the conversation before the turn, in the order
\* they were made (all of them when there are fewer than 10).
C34_LastTenInOrder ==
    turn.requests # <<>> =>
        PriorPart(turn.requests[1]) = LastOf(UserAssistant(turn.pre_messages), 10)

----------------------------------------------------------------------------
\* C35. Referential integrity: every row of the table messages has a
\* session_id that is the id of a row of the table sessions.
C35_MessagesNameSessions ==
    \A k \in DOMAIN store_messages :
        \E j \in DOMAIN store_sessions :
            store_sessions[j].id = store_messages[k].session_id

----------------------------------------------------------------------------
\* C36. A clear() or new_session() call that returns an error leaves the
\* manager's session id, its hot window and the tables of the store as they
\* were before the call.
C36_ErrorLeavesUnchanged ==
    [][((CtxClear \/ CtxNewSession) /\ ctx_ret' = "Err")
        => UNCHANGED <<session_id, hot_messages, store_sessions, store_messages>>]_vars

\* the same of new_session alone
NewSessionErrorLeavesUnchanged ==
    [][(CtxNewSession /\ ctx_ret' = "Err")
        => UNCHANGED <<session_id, hot_messages, store_sessions, store_messages>>]_vars

----------------------------------------------------------------------------
(* RouterAgent::route_by_keywords (src/agents/router.rs) beside route_query *)

\* route_by_keywords: the keywords of each branch, in the order of the branches
RouterCoderWords ==
    RouteCoderWords \cup
    { <<"i", "m", "p", "l", "e", "m", "e", "n", "t">>,
      <<"r", "e", "f", "a", "c", "t", "o", "r">>,
      <<"c", "l", "a", "s", "s">>,
      <<"m", "e", "t", "h", "o", "d">> }
RouterFilerWords ==
    RouteFilerWords \cup
    { <<"c", "o", "p", "y">>,
      <<"m", "o", "v", "e">>,
      <<"d", "e", "l", "e", "t", "e">>,
      <<"r", "e", "n", "a", "m", "e">> }
RouterShellWords ==
    RouteShellWords \cup
    { <<"s", "e", "r", "v", "i", "c", "e">>,
      <<"s", "t", "a", "r", "t">>,
      <<"s", "t", "o", "p">>,
      <<"r", "e", "s", "t", "a", "r", "t">> }
RouterMemoryWords ==
    RouteMemoryWords \cup
    { <<"b", "e", "f", "o", "r", "e">>,
      <<"l", "a", "s", "t", " ", "t", "i", "m", "e">>,
      <<"p", "r", "e", "v", "i", "o", "u", "s">> }
RouterAppWords ==
    RouteAppWords \cup
    { <<"d", "a", "s", "h", "b", "o", "a", "r", "d">>,
      <<"u", "i">>,
      <<"i", "n", "t", "e", "r", "f", "a", "c", "e">> }

\* The letters of an agent's name as route_by_keywords returns it, and as
\* route_query does
UpperName(agent) ==
    CASE agent = CODER -> <<"C", "O", "D", "E", "R">>
      [] agent = FILER -> <<"F", "I", "L", "E", "R">>
      [] agent = SHELL -> <<"S", "H", "E", "L", "L">>
      [] agent = MEMORY -> <<"M", "E", "M", "O", "R", "Y">>
      [] agent = APP -> <<"A", "P", "P">>
LowerName(agent) ==
    CASE agent = CODER -> <<"c", "o", "d", "e", "r">>
      [] agent = FILER -> <<"f", "i", "l", "e", "r">>
      [] agent = SHELL -> <<"s", "h", "e", "l", "l">>
      [] agent = MEMORY -> <<"m", "e", "m", "o", "r", "y">>
      [] agent = APP -> <<"a", "p", "p">>

\* RouterAgent::route_by_keywords: the first branch one of whose keywords the
\* lowercased query contains; SHELL when none does
route_by_keywords(q) ==
    LET query_lower == to_lowercase(q)
    IN  IF ContainsAny(query_lower, RouterCoderWords) THEN UpperName(CODER)
        ELSE IF ContainsAny(query_lower, RouterFilerWords) THEN UpperName(FILER)
        ELSE IF ContainsAny(query_lower, RouterShellWords) THEN UpperName(SHELL)
        ELSE IF ContainsAny(query_lower, RouterMemoryWords) THEN UpperName(MEMORY)
        ELSE IF ContainsAny(query_lower, RouterAppWords) THEN UpperName(APP)
        ELSE UpperName(SHELL)

\* The words of the request texts given to both routers
RouterWords ==
    { <<"c", "o", "d", "e">>,
      <<"F", "i", "l", "e">>,
      <<"r", "e", "c", "a", "l", "l">>,
      <<"a", "p", "p">>,
      <<"h", "e", "l", "l", "o">>,
      <<"r", "e", "f", "a", "c", "t", "o", "r">>,
      <<"s", "t", "o", "p">>,
      <<"b", "u", "i", "l", "d">> }
RECURSIVE RouterTexts(_)
RouterTexts(n) ==
    IF n <= 1 THEN RouterWords
    ELSE RouterTexts(n - 1)
         \cup {t \o <<" ">> \o w : t \in RouterTexts(n - 1), w \in RouterWords}

InitRouter ==
    /\ query \in RouterTexts(MaxWords)
    /\ provider = "local"
    /\ forced_agent = None
    /\ route_ret = NoRoute
    /\ router_ret = <<>>
    /\ store_sessions = <<>>
    /\ store_messages = <<>>
    /\ next_uuid = 1
    /\ InitExecIdle
    /\ InitCtxIdle
    /\ InitTuiIdle
    /\ InitTimeIdle
    /\ InitQueryIdle
    /\ InitParseIdle
    /\ InitWatcherIdle
    /\ InitSettingsIdle

outsideRouter == <<watcherVars, settingsVars, storeVars, execVars, ctxVars, tuiVars, timeVars,
                   queryVars, parseVars>>

\* RouterAgent::execute on a context whose last user message is the query
RouterExecute ==
    /\ router_ret = <<>>
    /\ router_ret' = route_by_keywords(query)
    /\ UNCHANGED <<routeVars, outsideRouter>>

NextRouter == ProcessQuery \/ RouterExecute
SpecRouter == InitRouter /\ [][NextRouter]_vars

\* C37. On the same request text, route_by_keywords and route_query select
\* the same handler, up to the letter case of its name.
C37_RoutersAgree ==
    (router_ret # <<>> /\ route_ret.routed)
        => to_lowercase(router_ret) = LowerName(route_ret.selected)

----------------------------------------------------------------------------
\* C38. get_notes(Some(tags), limit) returns min(limit, m) notes of the m
\* stored notes that carry a tag of the filter: the limit bounds the filtered
\* result, and no matching note is left out while fewer than limit are
\* returned.
C38_LimitBoundsFilteredResult ==
    (/\ store_last.op = "get_notes"
     /\ store_last.ok
     /\ store_last.arg.q.some) =>
        LET matching == IdsOfNotesWithAnyTag(store_last.arg.q.v)
            m == Cardinality(matching)
            limit == store_last.arg.limit.v
        IN  /\ \A k \in DOMAIN store_ret : store_ret[k].id \in matching
            /\ Len(store_ret) = IF limit < m THEN limit ELSE m

----------------------------------------------------------------------------
(* ScreenWatcher::check_for_changes and its background capture task *)

\* ScreenWatcher::new, `interval: Duration::from_secs(3)`, in seconds
CheckInterval == 3

\* What capture_screen_sync describes a screen as, and the results it gives
ScreenDescription == <<"Screen ", "captured">>
CaptureResults == [hash : 1..MaxHash, description : {ScreenDescription}]

\* How the spawned task can end: capture_screen_sync returns Ok(Some(result)),
\* an Err, or Ok(None) (no screen, or a build without the screenshots feature)
CaptureOutcomes == {"result", "failed", "no_screen"}

\* ScreenWatcher::new(); elapsed is last_check.elapsed() in seconds, counted
\* up to the interval, and receiver tells whether capture_receiver is Some
InitWatcher ==
    /\ watcher = [last_hash |-> None, elapsed |-> 0, last_description |-> None,
                  enabled |-> TRUE, receiver |-> FALSE,
                  capture_in_progress |-> FALSE]
    /\ capture_task = "none"
    /\ capture_channel = <<>>
    /\ watcher_ret = None
    /\ store_sessions = <<>>
    /\ store_messages = <<>>
    /\ next_uuid = 1
    /\ InitExecIdle
    /\ InitCtxIdle
    /\ InitTuiIdle
    /\ InitTimeIdle
    /\ InitRouteIdle
    /\ InitQueryIdle
    /\ InitParseIdle
    /\ InitSettingsIdle
    /\ InitRouterIdle

outsideWatcher == <<routerVars, settingsVars, storeVars, execVars, ctxVars, tuiVars,
                    timeVars, routeVars, queryVars, parseVars>>

\* A second passes
WatcherTick ==
    /\ watcher.elapsed < CheckInterval
    /\ watcher' = [watcher EXCEPT !.elapsed = @ + 1]
    /\ UNCHANGED <<capture_task, capture_channel, watcher_ret, outsideWatcher>>

\* The task spawned by start_background_capture ends: it sends its result, or
\* sends nothing; the sender is dropped with the task
CaptureTaskEnds ==
    /\ capture_task = "running"
    /\ capture_task' = "ended"
    /\ \E o \in CaptureOutcomes :
          IF o = "result"
          THEN \E result \in CaptureResults :
                  capture_channel' = Append(capture_channel, result)
          ELSE UNCHANGED capture_channel
    /\ UNCHANGED <<watcher, watcher_ret, outsideWatcher>>

\* check_for_changes as it would be if a finished task that sent nothing
\* (try_recv: Disconnected) reset the flag too
TaskOver_OrDisconnected(received) ==
    received \/ (watcher.receiver /\ capture_task = "ended")

\* check_for_changes, the reset of capture_in_progress: only in the
\* Ok(result) arm of receiver.try_recv()
TaskOver(received) == received

\* watcher.check_for_changes(), with start_background_capture
CheckForChanges ==
    /\ watcher.enabled
    /\ LET received == watcher.receiver /\ capture_channel # <<>>
           result == Head(capture_channel)
           changed == ~watcher.last_hash.some \/ watcher.last_hash.v # result.hash
           in_progress == watcher.capture_in_progress /\ ~TaskOver(received)
           got == IF received
                  THEN [watcher EXCEPT !.last_hash = Some(result.hash),
                                       !.last_description = Some(result.description),
                                       !.capture_in_progress = in_progress]
                  ELSE [watcher EXCEPT !.capture_in_progress = in_progress]
       IN  IF received /\ changed
           THEN /\ watcher' = got
                /\ capture_channel' = Tail(capture_channel)
                /\ watcher_ret' = Some(result.description)
                /\ UNCHANGED capture_task
           ELSE IF got.elapsed < CheckInterval \/ in_progress
           THEN /\ watcher' = got
                /\ capture_channel' = IF received THEN Tail(capture_channel)
                                      ELSE capture_channel
                /\ watcher_ret' = None
                /\ UNCHANGED capture_task
           ELSE /\ watcher' = [got EXCEPT !.elapsed = 0, !.receiver = TRUE,
                                          !.capture_in_progress = TRUE]
                /\ capture_channel' = <<>>
                /\ capture_task' = "running"
                /\ watcher_ret' = None
    /\ UNCHANGED outsideWatcher

NextWatcher == WatcherTick \/ CaptureTaskEnds \/ CheckForChanges
SpecWatcher == InitWatcher /\ [][NextWatcher]_vars

\* run calls check_for_changes in every pass of its loop, time passes, and a
\* spawned task ends
SpecWatcherLive ==
    /\ SpecWatcher
    /\ WF_vars(WatcherTick)
    /\ WF_vars(CaptureTaskEnds)
    /\ WF_vars(CheckForChanges)

\* C39. After a background capture task ends, with a result, with a failure
\* or without a screen, a later check_for_changes starts a new capture: the
\* watcher does not stay in the capture-in-progress state.
C39_CaptureRestarts ==
    (capture_task = "ended") ~> (capture_task = "running")

----------------------------------------------------------------------------
(* The turn loop under fairness: a turn that was started is run to its end *)

\* handle_key awaits submit_message, so the runtime polls the turn until it
\* ends: every inference, tool and store call awaited returns, and
\* process_with_agent runs on to its next await or to its end
SpecLive == Spec /\ WF_vars(TurnStep)

\* No message of the list is marked as streaming
NoneStreaming == \A k \in DOMAIN messages : ~messages[k].is_streaming

\* C40. Every turn submit_message starts ends with processing = false,
\* status = Ready and the assistant placeholder no longer streaming, whether
\* the turn succeeds or an inference call, a tool or a store write fails.
C40_TurnEnds ==
    processing ~> (~processing /\ status = <<"Ready">> /\ NoneStreaming /\ pc = "idle")

\* A turn ended by a failed store write, after its tools ran
C40_Witness ==
    /\ pc = "idle"
    /\ turn.outcome = "Err"
    /\ turn.failed_at = "save_assistant"
    /\ turn.executed # <<>>
    /\ ~processing
    /\ status = <<"Ready">>
    /\ NoneStreaming

====
